---- MODULE Spec2Model ----
(***************************************************************************)
(* gearman_gtop: a terminal dashboard for gearmand queue status.           *)
(*                                                                         *)
(* The model follows the version of the program built around the           *)
(* `display` struct (src/unnamed/part_001, lines 429-805): three           *)
(* goroutines (display.updateLines, handleEvents, display.draw) share the  *)
(* fields of the global statusDisplay, and main waits on the quit channel. *)
(*                                                                         *)
(* Strings are sequences of one-character strings, so that lowercasing,    *)
(* substring search and splitting are computed and not assumed.            *)
(***************************************************************************)
EXTENDS Integers, Sequences, FiniteSets, TLC

(***************************************************************************)
(* Bounds of the model.                                                    *)
(***************************************************************************)
\* longest job name drawn as an input of the filter
MaxNameLen == 2
\* longest --filterInclude / --filterExclude flag value
MaxFlagLen == 3

(***************************************************************************)
(* Strings.                                                                *)
(***************************************************************************)
NameChars == {"a", "B"}
FlagChars == {"a", "B", ","}

\* all sequences over S of length 0..n
SeqsUpTo(S, n) == UNION {[1..k -> S] : k \in 0..n}

\* strings.ToLower, one character
ToLowerChar(c) ==
  CASE c = "A" -> "a"
    [] c = "B" -> "b"
    [] OTHER -> c

\* strings.ToLower
ToLower(s) == [i \in 1..Len(s) |-> ToLowerChar(s[i])]

\* strings.Contains: the empty string is contained in every string
Contains(s, substr) ==
  \E i \in 0..(Len(s) - Len(substr)) :
     \A j \in 1..Len(substr) : s[i + j] = substr[j]

\* strings.Split(s, sep) for a one-character separator: n separators give
\* n + 1 fields, empty fields included
RECURSIVE Split(_, _)
Split(s, sep) ==
  IF \A i \in 1..Len(s) : s[i] # sep
    THEN <<s>>
    ELSE LET k == CHOOSE i \in 1..Len(s) :
                     s[i] = sep /\ \A j \in 1..(i - 1) : s[j] # sep
         IN  <<SubSeq(s, 1, k - 1)>> \o Split(SubSeq(s, k + 1, Len(s)), sep)

(***************************************************************************)
(* Filter (statusFilter / initialiseFilters).                              *)
(***************************************************************************)
Zero == <<"0">>

\* initialiseFilters without the lowercasing of the flags
initialiseFilters_NoLower(include, exclude) ==
  [include |-> IF Len(include) > 0 THEN Split(include, ",") ELSE <<>>,
   exclude |-> IF Len(exclude) > 0 THEN Split(exclude, ",") ELSE <<>>]

\* initialiseFilters: a flag that was given is lowercased as a whole and split
\* at the commas; a flag that was not given leaves the nil slice (the
\* lowercased flags are also stored back, see PollConnect and FilterApply)
initialiseFilters(include, exclude) ==
  [include |-> IF Len(include) > 0 THEN Split(ToLower(include), ",") ELSE <<>>,
   exclude |-> IF Len(exclude) > 0 THEN Split(ToLower(exclude), ",") ELSE <<>>]

\* statusFilter without the check for idle queues
statusFilter_NoIdleCheck(all, includeTerms, excludeTerms, line) ==
  IF Len(includeTerms) = 0 /\ Len(excludeTerms) = 0
    THEN TRUE
  ELSE LET name == ToLower(line.Name) IN
    IF \E i \in 1..Len(excludeTerms) : Contains(name, excludeTerms[i])
      THEN FALSE
    ELSE IF \E i \in 1..Len(includeTerms) : Contains(name, includeTerms[i])
      THEN TRUE
    ELSE Len(includeTerms) = 0

\* statusFilter with the include terms tried before the exclude terms
statusFilter_IncludeFirst(all, includeTerms, excludeTerms, line) ==
  IF ~all /\ line.Queued = Zero /\ line.Running = Zero /\ line.Workers = Zero
    THEN FALSE
  ELSE IF Len(includeTerms) = 0 /\ Len(excludeTerms) = 0
    THEN TRUE
  ELSE LET name == ToLower(line.Name) IN
    IF \E i \in 1..Len(includeTerms) : Contains(name, includeTerms[i])
      THEN TRUE
    ELSE IF \E i \in 1..Len(excludeTerms) : Contains(name, excludeTerms[i])
      THEN FALSE
    ELSE Len(includeTerms) = 0

\* the closure returned by statusFilter(includeTerms, excludeTerms)
statusFilter(all, includeTerms, excludeTerms, line) ==
  IF ~all /\ line.Queued = Zero /\ line.Running = Zero /\ line.Workers = Zero
    THEN FALSE
  ELSE IF Len(includeTerms) = 0 /\ Len(excludeTerms) = 0
    THEN TRUE
  ELSE LET name == ToLower(line.Name) IN
    IF \E i \in 1..Len(excludeTerms) : Contains(name, excludeTerms[i])
      THEN FALSE
    ELSE IF \E i \in 1..Len(includeTerms) : Contains(name, includeTerms[i])
      THEN TRUE
    ELSE Len(includeTerms) = 0

(***************************************************************************)
(* Numbers in text (strconv.Atoi / strconv.Itoa on unsigned decimals).     *)
(***************************************************************************)
Digits == <<"0", "1", "2", "3", "4", "5", "6", "7", "8", "9">>

IsDigit(c) == \E d \in 1..10 : Digits[d] = c

DigitVal(c) == (CHOOSE d \in 1..10 : Digits[d] = c) - 1

\* strconv.Atoi succeeds
IsNumber(s) == Len(s) > 0 /\ \A i \in 1..Len(s) : IsDigit(s[i])

RECURSIVE DecVal(_)
DecVal(s) ==
  IF Len(s) = 0 THEN 0
  ELSE 10 * DecVal(SubSeq(s, 1, Len(s) - 1)) + DigitVal(s[Len(s)])

\* the largest int of the build. The model takes the one of a build with
\* 32-bit int, 1<<31 - 1; a build with 64-bit int has 1<<63 - 1, which orders
\* the same way against the small numbers of the model
MaxInt == 2147483647

\* a decimal number too large for the int of every build: strconv.Atoi fails
\* on it with ErrRange
OutOfRange(s) == IsNumber(s) /\ Len(s) > 19 /\ s[1] # "0"

\* Atoi that gives 0 whenever it fails, also on a number out of range
Atoi_ZeroOnError(s) ==
  IF IsNumber(s) /\ ~OutOfRange(s) THEN DecVal(s) ELSE 0

\* the value strconv.Atoi returns when the error is dropped (inti, _ :=):
\* 0 on a field that is not a number, the largest int on a number out of
\* range
Atoi(s) ==
  IF ~IsNumber(s) THEN 0
  ELSE IF OutOfRange(s) THEN MaxInt
  ELSE DecVal(s)

RECURSIVE Itoa(_)
Itoa(n) == IF n < 10 THEN <<Digits[n + 1]>>
           ELSE Itoa(n \div 10) \o <<Digits[(n % 10) + 1]>>

(***************************************************************************)
(* Status lines (gearadmin.StatusLine) and the library calls on them.      *)
(***************************************************************************)
StatusLine(name, queued, running, workers) ==
  [Name |-> name, Queued |-> queued, Running |-> running, Workers |-> workers]

columnNames ==
  StatusLine(<<"J", "o", "b", " ", "n", "a", "m", "e">>,
             <<"Q", "u", "e", "u", "e", "d">>,
             <<"R", "u", "n", "n", "i", "n", "g">>,
             <<"W", "o", "r", "k", "e", "r", "s">>)

Range(s) == {s[i] : i \in 1..Len(s)}

max(a, b) == IF a >= b THEN a ELSE b

min(a, b) == IF a <= b THEN a ELSE b

\* client.StatusFiltered(filter): the lines of the host's answer that the
\* filter keeps, in the order of the answer
RECURSIVE StatusFiltered(_, _, _)
StatusFiltered(all, terms, report) ==
  IF Len(report) = 0 THEN <<>>
  ELSE LET rest == StatusFiltered(all, terms, Tail(report)) IN
       IF statusFilter(all, terms.include, terms.exclude, Head(report))
         THEN <<Head(report)>> \o rest
         ELSE rest

\* a line of a known name taking the place of the merged line, not added to it
MergeLine_Replace(sl, line) ==
  IF \E i \in 1..Len(sl) : sl[i].Name = line.Name
    THEN LET k == CHOOSE i \in 1..Len(sl) : sl[i].Name = line.Name IN
         [sl EXCEPT ![k] = line]
    ELSE Append(sl, line)

\* one line folded into a merged list: added to the line of the same name,
\* appended when the name is new
MergeLine(sl, line) ==
  IF \E i \in 1..Len(sl) : sl[i].Name = line.Name
    THEN LET k == CHOOSE i \in 1..Len(sl) : sl[i].Name = line.Name IN
         [sl EXCEPT ![k] =
            StatusLine(line.Name,
                       Itoa(Atoi(sl[k].Queued) + Atoi(line.Queued)),
                       Itoa(Atoi(sl[k].Running) + Atoi(line.Running)),
                       Itoa(Atoi(sl[k].Workers) + Atoi(line.Workers)))]
    ELSE Append(sl, line)

\* StatusLines.Merge
RECURSIVE Merge(_, _)
Merge(sl, other) ==
  IF Len(other) = 0 THEN sl
  ELSE Merge(MergeLine(sl, Head(other)), Tail(other))

\* order of characters (byte order of the characters the model uses)
CharOrd(c) ==
  CASE c = " " -> 0
    [] c = "," -> 1
    [] IsDigit(c) -> 2 + DigitVal(c)
    [] c = "A" -> 20
    [] c = "B" -> 21
    [] c = "a" -> 30
    [] c = "b" -> 31
    [] OTHER -> 40

\* s < t for strings
StrLess(s, t) ==
  \E k \in 1..(Len(t)) :
     /\ \A j \in 1..(k - 1) : j <= Len(s) /\ s[j] = t[j]
     /\ \/ k = Len(s) + 1
        \/ k <= Len(s) /\ CharOrd(s[k]) < CharOrd(t[k])

\* byQueued.Less with the fields compared as text
byQueued_Text(a, b) == StrLess(a.Queued, b.Queued)

\* byQueued.Less (gearadmin.ByQueued): the queued fields as integers
byQueued(a, b) == Atoi(a.Queued) < Atoi(b.Queued)

\* byRunning.Less (gearadmin.ByRunning)
byRunning(a, b) == Atoi(a.Running) < Atoi(b.Running)

\* byWorkers.Less (gearadmin.ByWorkers)
byWorkers(a, b) == Atoi(a.Workers) < Atoi(b.Workers)

\* the comparison by name with the case of the letters kept
byName_CaseSensitive(a, b) == StrLess(a.Name, b.Name)

\* sortutil.CiAscByField on the name (gearadmin.ByName): the lowercased
\* names compared as strings
byName(a, b) == StrLess(ToLower(a.Name), ToLower(b.Name))

\* the comparison a sort key stands for (sortFields)
Less(field, a, b) ==
  CASE field = "1" -> byName(a, b)
    [] field = "2" -> byQueued(a, b)
    [] field = "3" -> byRunning(a, b)
    [] field = "4" -> byWorkers(a, b)
    [] OTHER -> FALSE

\* the rows of sl in every order
Orders(sl) ==
  LET n == Len(sl)
      bij == {f \in [1..n -> 1..n] : \A i, j \in 1..n : f[i] = f[j] => i = j}
  IN  {[i \in 1..n |-> sl[f[i]]] : f \in bij}

Ordered(sl, field, ascending) ==
  \A i, j \in 1..Len(sl) :
     i < j => IF ascending THEN ~Less(field, sl[j], sl[i])
                           ELSE ~Less(field, sl[i], sl[j])

\* StatusLines.Sort(by, ascending): the orders an in-place sort may leave
\* (rows that compare equal may end in any order)
Sort(sl, field, ascending) ==
  {p \in Orders(sl) : Ordered(p, field, ascending)}

\* what a reader can find in a slice while it is being sorted in place, or
\* what two sorts running on it at once can leave: each slot holds one of the
\* rows, not necessarily each row once
Torn(sl) == [1..Len(sl) -> Range(sl)]

\* fieldWidthsFactory
fieldWidthsFactory(status) ==
  LET w(f, pad, label) ==
        LET lens == {Len(status[i][f]) + pad : i \in 1..Len(status)} \cup {Len(label)}
        IN  CHOOSE m \in lens : \A x \in lens : x <= m
      name == w("Name", 1, columnNames.Name)
      queued == w("Queued", 1, columnNames.Queued)
      running == w("Running", 1, columnNames.Running)
      workers == w("Workers", 0, columnNames.Workers)
  IN  [name |-> name, queued |-> queued, running |-> running, workers |-> workers,
       total |-> name + queued + running + workers + 3]

(***************************************************************************)
(* Inputs of the model.                                                    *)
(***************************************************************************)
\* poll cycles that publish (the poll loop itself never ends)
MaxPolls == 2
\* capacity of statusDisplay.redraw (make(chan bool, 5))
RedrawCap == 5

\* input events the dispatcher reads in one run
MaxEvents == 2

\* command lines the program is run with: --host (one host, two hosts, a
\* host with a port, a connection string with two colons), --sort, --all,
\* --filterInclude and --filterExclude
CommandLines ==
  {[host |-> <<"h">>, sort |-> <<"1">>,
    all |-> TRUE, include |-> <<>>, exclude |-> <<>>],
   [host |-> <<"h", ":", "1", ";", "g">>, sort |-> <<"3">>,
    all |-> FALSE, include |-> <<"A">>, exclude |-> <<"x", ",", "B">>],
   [host |-> <<"h", ";", "g", ":", "1", ":", "2">>, sort |-> <<"4">>,
    all |-> FALSE, include |-> <<>>, exclude |-> <<>>]}

\* terminal sizes <<width, height>> reported by termbox.Size and by resize
\* events
TermSizes == {<<30, 4>>, <<30, 3>>, <<12, 1>>}

\* answers a host gives to one status request
HostReports ==
  {<<StatusLine(<<"a">>, <<"2">>, <<"0">>, <<"1">>),
     StatusLine(<<"B">>, <<"0">>, <<"0">>, <<"0">>)>>,
   <<StatusLine(<<"B">>, <<"1", "0">>, <<"1">>, <<"x">>)>>}

\* the zero rune, the value of sortField before the first sortEvent
NoRune == ""

SortKeys == {"1", "2", "3", "4"}

(***************************************************************************)
(* State.                                                                  *)
(***************************************************************************)
VARIABLES
  \* command line flags
  showAll, queueNameInclude, queueNameExclude, gearmanHost, initialSortIndex,
  \* the fields of statusDisplay; statusLines is the slice the field refers to
  \* (an index of arrays), redraw the number of buffered messages
  statusLines, fieldWidths, position, width, height, headerHeight,
  footerHeight, numberOfRows, sortField, sortAscending, redraw,
  \* the backing arrays of the published slices: arrays[0] is the nil slice of
  \* the zero display, arrays[n] the slice the n-th poll cycle allocated
  arrays,
  \* the terminal: open between termbox.Init and termbox.Close; stdout is the
  \* message fatal printed
  termOpen, stdout,
  \* main: where it is; exitCode is -1 while the process runs
  mainPc, exitCode,
  \* display.updateLines: where it is, its clients, the client it asks next,
  \* its local statusLines, its filter, and the array its sortLines is sorting
  pollPc, clients, pollIdx, pollLines, responseFilter, pollSort,
  \* handleEvents: where it is, the array its sortLines is sorting, and the
  \* number of events it has read
  evPc, evSort, events,
  \* display.draw: where it is and its locals lines and widths
  drawPc, drawLines, drawWidths, drawFoot,
  \* history: the rows each cycle published, the cycle the widths were
  \* computed from, and whether a goroutine has panicked
  published, widthsOf, panicked,
  \* the filter applied to one line on its own
  filterLine, filterKept,
  \* one poll cycle on its own: the answers of the hosts and the merged lines
  hostRows, mergedRows,
  \* a burst of arrow keys: the directions handleEvents has read
  burst,
  \* a status answer as text, and the status getStatus makes of it
  reply, parsed

flagVars == <<showAll, queueNameInclude, queueNameExclude, gearmanHost,
              initialSortIndex>>
displayVars == <<statusLines, fieldWidths, position, width, height,
                 headerHeight, footerHeight, numberOfRows, sortField,
                 sortAscending, redraw, arrays>>
termVars == <<termOpen, stdout>>
mainVars == <<mainPc, exitCode>>
pollVars == <<pollPc, clients, pollIdx, pollLines, responseFilter, pollSort>>
evVars == <<evPc, evSort, events>>
drawVars == <<drawPc, drawLines, drawWidths, drawFoot>>
histVars == <<published, widthsOf, panicked>>
filterVars == <<filterLine, filterKept>>
mergeVars == <<hostRows, mergedRows>>
\* the variables of the parts that are also run on their own
scrollVars == <<burst>>
parseVars == <<reply, parsed>>
pureVars == <<filterVars, mergeVars, scrollVars, parseVars>>

vars == <<flagVars, displayVars, termVars, mainVars, pollVars, evVars,
          drawVars, histVars, pureVars>>

NoLine == StatusLine(<<>>, <<>>, <<>>, <<>>)

NoSort == [on |-> -1, field |-> NoRune, ascending |-> FALSE, raced |-> FALSE]

NoFooter == [shown |-> 0, total |-> 0]

\* the zero value of gearmanStatus
NoStatus ==
  [statusLines |-> <<>>,
   statusLineDims |-> [name |-> 0, queued |-> 0, running |-> 0, workers |-> 0]]

\* the zero value of display and the process before main runs
Boot ==
  /\ statusLines = 0
  /\ fieldWidths = [name |-> 0, queued |-> 0, running |-> 0, workers |-> 0, total |-> 0]
  /\ position = 0
  /\ width = 0
  /\ height = 0
  /\ headerHeight = 0
  /\ footerHeight = 0
  /\ numberOfRows = 0
  /\ sortField = NoRune
  /\ sortAscending = FALSE
  /\ redraw = 0
  /\ arrays = [g \in 0..MaxPolls |-> <<>>]
  /\ termOpen = FALSE
  /\ stdout = "none"
  /\ mainPc = "sort"
  /\ exitCode = -1
  /\ pollPc = "connect"
  /\ clients = 0
  /\ pollIdx = 1
  /\ pollLines = <<>>
  /\ responseFilter = [include |-> <<>>, exclude |-> <<>>]
  /\ pollSort = NoSort
  /\ evPc = "poll"
  /\ evSort = NoSort
  /\ events = 0
  /\ drawPc = "wait"
  /\ drawLines = 0
  /\ drawWidths = [w |-> fieldWidths, of |-> 0]
  /\ drawFoot = NoFooter
  /\ published = [g \in 0..MaxPolls |-> <<>>]
  /\ widthsOf = 0
  /\ panicked = FALSE

Init ==
  /\ \E c \in CommandLines :
       /\ showAll = c.all
       /\ queueNameInclude = c.include
       /\ queueNameExclude = c.exclude
       /\ gearmanHost = c.host
       /\ initialSortIndex = c.sort
  /\ Boot
  /\ filterLine = NoLine
  /\ filterKept = FALSE
  /\ hostRows = <<>>
  /\ mergedRows = <<>>
  /\ burst = <<>>
  /\ reply = <<>>
  /\ parsed = NoStatus

Running == exitCode = -1

\* the goroutines exist once main has started them
Started == mainPc \in {"wait", "close", "exit"}

(***************************************************************************)
(* main                                                                    *)
(***************************************************************************)
\* sortEvent flipping the direction on every key
sortEventAscending_Toggle(index) == ~sortAscending

\* display.sortEvent leaving the direction as it finds it
sortEventAscending_Keep(index) == sortAscending

\* display.sortEvent up to the call of sortLines: the new sort order
sortEventAscending(index) ==
  IF sortField = index THEN ~sortAscending
  ELSE IF index = "1" THEN TRUE
  ELSE FALSE

\* statusDisplay.sortEvent(rune(initialSortIndex[0])), before any goroutine
\* is started: the slice is nil, so sortLines has nothing to move, and the
\* send blocks while the channel is full; indexing an empty --sort panics
MainSortEvent ==
  /\ Running /\ mainPc = "sort"
  /\ IF Len(initialSortIndex) = 0
       THEN /\ exitCode' = 2
            /\ panicked' = TRUE
            /\ UNCHANGED <<sortAscending, sortField, redraw, mainPc>>
       ELSE /\ redraw < RedrawCap
            /\ sortAscending' = sortEventAscending(initialSortIndex[1])
            /\ sortField' = initialSortIndex[1]
            /\ redraw' = redraw + 1
            /\ mainPc' = "init"
            /\ UNCHANGED <<exitCode, panicked>>
  /\ UNCHANGED <<flagVars, statusLines, fieldWidths, position, width, height,
                 headerHeight, footerHeight, numberOfRows, arrays, termVars,
                 pollVars, evVars, drawVars, published, widthsOf, pureVars>>

\* termbox.Init succeeds
MainInit ==
  /\ Running /\ mainPc = "init"
  /\ termOpen' = TRUE
  /\ mainPc' = "resize"
  /\ UNCHANGED <<flagVars, displayVars, stdout, exitCode, pollVars,
                 evVars, drawVars, histVars, pureVars>>

\* termbox.Init fails: fatal(err.Error())
MainInitFail ==
  /\ Running /\ mainPc = "init"
  /\ termOpen' = FALSE
  /\ stdout' = "init"
  /\ exitCode' = 2
  /\ UNCHANGED <<flagVars, displayVars, mainPc, pollVars, evVars,
                 drawVars, histVars, pureVars>>

\* statusDisplay.resize with a redraw channel that holds one message
MainResize_OneSlot ==
  /\ Running /\ mainPc = "resize"
  /\ \E sz \in TermSizes :
       /\ width' = sz[1]
       /\ height' = sz[2]
  /\ redraw < 1
  /\ redraw' = redraw + 1
  /\ mainPc' = "wait"
  /\ UNCHANGED <<flagVars, statusLines, fieldWidths, position, headerHeight,
                 footerHeight, numberOfRows, sortField, sortAscending, arrays,
                 termVars, exitCode, pollVars, evVars, drawVars, histVars,
                 pureVars>>

\* statusDisplay.resize(termbox.Size()), whose send blocks while the channel
\* is full, then the three go statements
MainResize ==
  /\ Running /\ mainPc = "resize"
  /\ \E sz \in TermSizes :
       /\ width' = sz[1]
       /\ height' = sz[2]
  /\ redraw < RedrawCap
  /\ redraw' = redraw + 1
  /\ mainPc' = "wait"
  /\ UNCHANGED <<flagVars, statusLines, fieldWidths, position, headerHeight,
                 footerHeight, numberOfRows, sortField, sortAscending, arrays,
                 termVars, exitCode, pollVars, evVars, drawVars, histVars,
                 pureVars>>

\* main returns after <-quit: the deferred termbox.Close()
MainClose ==
  /\ Running /\ mainPc = "close"
  /\ termOpen' = FALSE
  /\ mainPc' = "exit"
  /\ UNCHANGED <<flagVars, displayVars, stdout, exitCode, pollVars,
                 evVars, drawVars, histVars, pureVars>>

\* the process ends when main has returned
MainExit ==
  /\ Running /\ mainPc = "exit"
  /\ exitCode' = 0
  /\ UNCHANGED <<flagVars, displayVars, termVars, mainPc, pollVars, evVars,
                 drawVars, histVars, pureVars>>

(***************************************************************************)
(* display.updateLines (the poll loop)                                     *)
(***************************************************************************)
\* updateLines is inside fatal
InFatal == pollPc \in {"fatalClose", "fatalPrint", "fatalExit"}

\* fatal was called for a failed StatusFiltered (and not for a connection
\* string, which is rejected before any client is asked)
FetchFailed == InFatal /\ clients > 0

\* fatal(msg), first statement: termbox.Close()
FatalClose ==
  /\ Running /\ pollPc = "fatalClose"
  /\ termOpen' = FALSE
  /\ pollPc' = "fatalPrint"
  /\ UNCHANGED <<flagVars, displayVars, stdout, mainVars, clients,
                 pollIdx, pollLines, responseFilter, pollSort, evVars,
                 drawVars, histVars, pureVars>>

\* fatal(msg): fmt.Println(msg)
FatalPrint ==
  /\ Running /\ pollPc = "fatalPrint"
  /\ stdout' = IF FetchFailed THEN "status" ELSE "connection"
  /\ pollPc' = "fatalExit"
  /\ UNCHANGED <<flagVars, displayVars, termOpen, mainVars, clients,
                 pollIdx, pollLines, responseFilter, pollSort, evVars,
                 drawVars, histVars, pureVars>>

\* fatal ending the process the way log.Fatal does, with status 1
FatalExit_LogFatal ==
  /\ Running /\ pollPc = "fatalExit"
  /\ exitCode' = 1
  /\ UNCHANGED <<flagVars, displayVars, termVars, mainPc, pollVars, evVars,
                 drawVars, histVars, pureVars>>

\* fatal(msg): os.Exit(2)
FatalExit ==
  /\ Running /\ pollPc = "fatalExit"
  /\ exitCode' = 2
  /\ UNCHANGED <<flagVars, displayVars, termVars, mainPc, pollVars, evVars,
                 drawVars, histVars, pureVars>>

\* the connection strings of --host: the fields between the semicolons, each
\* split at its colons
connectionDetails == Split(gearmanHost, ";")

\* the loop over the connection strings and the construction of the filter:
\* a connection string with more than one colon is fatal
PollConnect ==
  /\ Running /\ Started /\ pollPc = "connect"
  /\ IF \E i \in 1..Len(connectionDetails) :
          Len(Split(connectionDetails[i], ":")) > 2
       THEN /\ pollPc' = "fatalClose"
            /\ UNCHANGED <<clients, responseFilter, queueNameInclude,
                           queueNameExclude>>
       ELSE /\ clients' = Len(connectionDetails)
            /\ responseFilter' = initialiseFilters(queueNameInclude, queueNameExclude)
            /\ queueNameInclude' = ToLower(queueNameInclude)
            /\ queueNameExclude' = ToLower(queueNameExclude)
            /\ pollPc' = "fetch"
  /\ UNCHANGED <<showAll, gearmanHost, initialSortIndex, displayVars, termVars,
                 mainVars, pollIdx, pollLines, pollSort, evVars, drawVars,
                 histVars, pureVars>>

\* client.StatusFiltered answers: its lines are merged into the local
\* statusLines
PollFetch ==
  /\ Running /\ pollPc = "fetch" /\ pollIdx <= clients
  /\ statusLines < MaxPolls
  /\ \E report \in HostReports :
       pollLines' = Merge(pollLines, StatusFiltered(showAll, responseFilter, report))
  /\ pollIdx' = pollIdx + 1
  /\ UNCHANGED <<flagVars, displayVars, termVars, mainVars, pollPc, clients,
                 responseFilter, pollSort, evVars, drawVars, histVars,
                 pureVars>>

\* a failed client.StatusFiltered storing the rows merged so far before fatal
PollFetchFail_Publish ==
  /\ Running /\ pollPc = "fetch" /\ pollIdx <= clients
  /\ statusLines < MaxPolls
  /\ LET g == statusLines + 1 IN
       /\ statusLines' = g
       /\ arrays' = [arrays EXCEPT ![g] = pollLines]
       /\ published' = [published EXCEPT ![g] = pollLines]
  /\ pollPc' = "fatalClose"
  /\ UNCHANGED <<flagVars, fieldWidths, position, width, height, headerHeight,
                 footerHeight, numberOfRows, sortField, sortAscending, redraw,
                 termVars, mainVars, clients, pollIdx,
                 pollLines, responseFilter, pollSort, evVars, drawVars,
                 widthsOf, panicked, pureVars>>

\* client.StatusFiltered fails: fatal("Couldn't get gearman status ...")
PollFetchFail ==
  /\ Running /\ pollPc = "fetch" /\ pollIdx <= clients
  /\ statusLines < MaxPolls
  /\ pollPc' = "fatalClose"
  /\ UNCHANGED <<flagVars, displayVars, termVars, mainVars, clients, pollIdx,
                 pollLines, responseFilter, pollSort, evVars, drawVars,
                 published, widthsOf, panicked,
                 pureVars>>

\* the rows stored as soon as one host has answered
PollPublish_Early ==
  /\ Running /\ pollPc = "fetch" /\ pollIdx > 1
  /\ LET g == statusLines + 1 IN
       /\ statusLines' = g
       /\ arrays' = [arrays EXCEPT ![g] = pollLines]
       /\ published' = [published EXCEPT ![g] = pollLines]
       /\ pollSort' = [on |-> g, field |-> sortField,
                       ascending |-> sortAscending, raced |-> FALSE]
  /\ pollPc' = "sort"
  /\ UNCHANGED <<flagVars, fieldWidths, position, width, height, headerHeight,
                 footerHeight, numberOfRows, sortField, sortAscending, redraw,
                 termVars, mainVars, clients, pollIdx, pollLines,
                 responseFilter, evVars, drawVars, widthsOf, panicked, pureVars>>

\* d.statusLines = statusLines, and d.sortLines() starts on the new slice
\* with the sort order it finds
PollPublish ==
  /\ Running /\ pollPc = "fetch" /\ pollIdx > clients
  /\ LET g == statusLines + 1 IN
       /\ statusLines' = g
       /\ arrays' = [arrays EXCEPT ![g] = pollLines]
       /\ published' = [published EXCEPT ![g] = pollLines]
       /\ pollSort' = [on |-> g, field |-> sortField,
                       ascending |-> sortAscending, raced |-> FALSE]
  /\ pollPc' = "sort"
  /\ UNCHANGED <<flagVars, fieldWidths, position, width, height, headerHeight,
                 footerHeight, numberOfRows, sortField, sortAscending, redraw,
                 termVars, mainVars, clients, pollIdx, pollLines,
                 responseFilter, evVars, drawVars, widthsOf, panicked, pureVars>>

\* what a sortLines call leaves in the array when it returns
SortOutcomes(srt) ==
  IF srt.raced THEN Torn(arrays[srt.on])
  ELSE Sort(arrays[srt.on], srt.field, srt.ascending)

\* d.sortLines() of the poll loop returns, and
\* d.fieldWidths = fieldWidthsFactory(statusLines)
PollSortDone ==
  /\ Running /\ pollPc = "sort"
  /\ \E res \in SortOutcomes(pollSort) :
       /\ arrays' = [arrays EXCEPT ![pollSort.on] = res]
       /\ fieldWidths' = fieldWidthsFactory(res)
  /\ widthsOf' = statusLines
  /\ pollSort' = NoSort
  /\ evSort' = IF evSort.on = pollSort.on
                 THEN [evSort EXCEPT !.raced = TRUE] ELSE evSort
  /\ pollPc' = "send"
  /\ UNCHANGED <<flagVars, statusLines, position, width, height,
                 headerHeight, footerHeight, numberOfRows, sortField,
                 sortAscending, redraw, termVars, mainVars, clients, pollIdx,
                 pollLines, responseFilter, evPc, events, drawVars, published,
                 panicked, pureVars>>

\* d.redraw <- true (blocks while the channel is full), the sleep, and the
\* start of the next cycle with an empty local statusLines
PollSend ==
  /\ Running /\ pollPc = "send"
  /\ redraw < RedrawCap
  /\ redraw' = redraw + 1
  /\ pollPc' = "fetch"
  /\ pollIdx' = 1
  /\ pollLines' = <<>>
  /\ UNCHANGED <<flagVars, statusLines, fieldWidths, position, width, height,
                 headerHeight, footerHeight, numberOfRows, sortField,
                 sortAscending, arrays, termVars, mainVars, clients,
                 responseFilter, pollSort, evVars, drawVars, histVars,
                 pureVars>>

(***************************************************************************)
(* handleEvents (the event dispatcher)                                     *)
(***************************************************************************)
\* 'q' or Ctrl-C is read: the goroutine is at quit <- true
EvQuitKey ==
  /\ Running /\ Started /\ evPc = "poll"
  /\ events < MaxEvents
  /\ events' = events + 1
  /\ evPc' = "sendQuit"
  /\ UNCHANGED <<flagVars, displayVars, termVars, mainVars, pollVars, evSort,
                 drawVars, histVars, pureVars>>

\* quit <- true meets <-quit in main (the channel is unbuffered)
QuitHandoff ==
  /\ Running /\ evPc = "sendQuit" /\ mainPc = "wait"
  /\ evPc' = "poll"
  /\ mainPc' = "close"
  /\ UNCHANGED <<flagVars, displayVars, termVars, exitCode, pollVars, evSort, events,
                 drawVars, published, widthsOf, panicked, pureVars>>

\* a sort key that also goes back to the first row
EvSortKey_ToTop ==
  /\ Running /\ Started /\ evPc = "poll"
  /\ events < MaxEvents
  /\ events' = events + 1
  /\ \E index \in SortKeys :
       /\ sortAscending' = sortEventAscending(index)
       /\ sortField' = index
       /\ evSort' = [on |-> statusLines, field |-> index,
                     ascending |-> sortEventAscending(index),
                     raced |-> pollSort.on = statusLines]
  /\ pollSort' = IF pollSort.on = statusLines
                   THEN [pollSort EXCEPT !.raced = TRUE] ELSE pollSort
  /\ evPc' = "sorting"
  /\ position' = 0
  /\ UNCHANGED <<flagVars, statusLines, fieldWidths, width, height,
                 headerHeight, footerHeight, numberOfRows, redraw, arrays,
                 termVars, mainVars, pollPc, clients, pollIdx, pollLines,
                 responseFilter, drawVars, published, widthsOf, panicked, pureVars>>

\* '1'..'4' is read: sortEvent sets the sort order and its sortLines starts
\* on the slice d.statusLines refers to; a sort of the poll loop on the same
\* slice now runs at the same time
EvSortKey ==
  /\ Running /\ Started /\ evPc = "poll"
  /\ events < MaxEvents
  /\ events' = events + 1
  /\ \E index \in SortKeys :
       /\ sortAscending' = sortEventAscending(index)
       /\ sortField' = index
       /\ evSort' = [on |-> statusLines, field |-> index,
                     ascending |-> sortEventAscending(index),
                     raced |-> pollSort.on = statusLines]
  /\ pollSort' = IF pollSort.on = statusLines
                   THEN [pollSort EXCEPT !.raced = TRUE] ELSE pollSort
  /\ evPc' = "sorting"
  /\ UNCHANGED <<flagVars, statusLines, fieldWidths, position, width, height,
                 headerHeight, footerHeight, numberOfRows, redraw, arrays,
                 termVars, mainVars, pollPc, clients, pollIdx, pollLines,
                 responseFilter, drawVars, published, widthsOf, panicked, pureVars>>

\* the sortLines call of sortEvent returns
EvSortDone ==
  /\ Running /\ evPc = "sorting"
  /\ \E res \in SortOutcomes(evSort) :
       arrays' = [arrays EXCEPT ![evSort.on] = res]
  /\ evSort' = NoSort
  /\ evPc' = "sendRedraw"
  /\ UNCHANGED <<flagVars, statusLines, fieldWidths, position, width, height,
                 headerHeight, footerHeight, numberOfRows, sortField,
                 sortAscending, redraw, termVars, mainVars, pollVars, events,
                 drawVars,
                 histVars, pureVars>>

\* scrollOutput without the test for the bottom
scrollOutput_NoBottom(direction) ==
  IF direction > 0 \/ position # 0
    THEN /\ position' = position + direction
         /\ evPc' = "sendRedraw"
    ELSE UNCHANGED <<position, evPc>>

\* display.scrollOutput(direction) up to its send: the position moves unless
\* the display is at the top (going up) or at the bottom (going down)
scrollOutput(direction) ==
  LET scrolledToTop == position = 0
      scrolledToBottom ==
        Len(arrays[statusLines]) - position <= numberOfRows
  IN  IF \/ direction < 0 /\ ~scrolledToTop
         \/ direction > 0 /\ ~scrolledToBottom
        THEN /\ position' = position + direction
             /\ evPc' = "sendRedraw"
        ELSE UNCHANGED <<position, evPc>>

\* an arrow key is read: display.scrollOutput(-1) or display.scrollOutput(+1)
EvScroll ==
  /\ Running /\ Started /\ evPc = "poll"
  /\ events < MaxEvents
  /\ events' = events + 1
  /\ \E direction \in {-1, 1} : scrollOutput(direction)
  /\ UNCHANGED <<flagVars, statusLines, fieldWidths, width, height,
                 headerHeight, footerHeight, numberOfRows, sortField,
                 sortAscending, redraw, arrays, termVars, mainVars, pollVars,
                 evSort, drawVars, published, widthsOf, panicked, pureVars>>

\* display.resize going back to the sort order of the command line
EvResize_SortReset ==
  /\ Running /\ Started /\ evPc = "poll"
  /\ events < MaxEvents
  /\ events' = events + 1
  /\ \E sz \in TermSizes :
       /\ width' = sz[1]
       /\ height' = sz[2]
  /\ sortField' = initialSortIndex[1]
  /\ sortAscending' = (initialSortIndex[1] = "1")
  /\ evPc' = "sendRedraw"
  /\ UNCHANGED <<flagVars, statusLines, fieldWidths, position, headerHeight,
                 footerHeight, numberOfRows, redraw,
                 arrays, termVars, mainVars, pollVars, evSort, drawVars,
                 histVars, pureVars>>

\* a resize event is read: display.resize(event.Width, event.Height) up to
\* its send
EvResize ==
  /\ Running /\ Started /\ evPc = "poll"
  /\ events < MaxEvents
  /\ events' = events + 1
  /\ \E sz \in TermSizes :
       /\ width' = sz[1]
       /\ height' = sz[2]
  /\ evPc' = "sendRedraw"
  /\ UNCHANGED <<flagVars, statusLines, fieldWidths, position, headerHeight,
                 footerHeight, numberOfRows, sortField, sortAscending, redraw,
                 arrays, termVars, mainVars, pollVars, evSort, drawVars,
                 histVars, pureVars>>

\* d.redraw <- true in sortEvent, scrollOutput or resize (blocks while the
\* channel is full)
EvSendRedraw ==
  /\ Running /\ evPc = "sendRedraw"
  /\ redraw < RedrawCap
  /\ redraw' = redraw + 1
  /\ evPc' = "poll"
  /\ UNCHANGED <<flagVars, statusLines, fieldWidths, position, width, height,
                 headerHeight, footerHeight, numberOfRows, sortField,
                 sortAscending, arrays, termVars, mainVars, pollVars, evSort,
                 events,
                 drawVars, histVars, pureVars>>

(***************************************************************************)
(* display.draw (the draw loop)                                            *)
(***************************************************************************)
\* a goroutine panics: the runtime ends the process with status 2 and the
\* terminal is left as it is
Panic ==
  /\ exitCode' = 2
  /\ panicked' = TRUE

\* the slice is being sorted in place by one of the other goroutines
BeingSorted(a) == pollSort.on = a \/ evSort.on = a

\* drawFooter: the text "<shown>/<total>"
drawFooter(sl, pos, y) ==
  [shown |-> min(y + pos - 1, Len(sl)), total |-> Len(sl)]

\* drawLine cuts a name longer than the name column with line.Name[:widths.name],
\* which panics when the column width is negative
drawLinePanics(widths, line) ==
  Len(line.Name) > widths.name /\ widths.name < 0

\* display.draw computing d.numberOfRows from the header and footer heights
\* the frame before left
DrawReceive_RowsFirst ==
  /\ Running /\ Started /\ drawPc = "wait"
  /\ redraw > 0
  /\ redraw' = redraw - 1
  /\ drawLines' = statusLines
  /\ LET widths == [fieldWidths EXCEPT !.name = @ + width - fieldWidths.total]
     IN  /\ drawWidths' = [w |-> widths, of |-> widthsOf]
         /\ IF drawLinePanics(widths, columnNames)
              THEN Panic /\ UNCHANGED drawPc
              ELSE drawPc' = "body" /\ UNCHANGED <<exitCode, panicked>>
  /\ headerHeight' = 1
  /\ footerHeight' = 1
  /\ drawFoot' = drawFooter(arrays[statusLines], position, height)
  /\ numberOfRows' = height - headerHeight - footerHeight
  /\ UNCHANGED <<flagVars, statusLines, fieldWidths, position, width, height,
                 sortField, sortAscending, arrays, termVars, mainPc,
                 pollVars, evVars, published, widthsOf, pureVars>>

\* <-d.redraw, lines := d.statusLines, the widths, termbox.Clear,
\* drawHeader, drawFooter and d.numberOfRows
DrawReceive ==
  /\ Running /\ Started /\ drawPc = "wait"
  /\ redraw > 0
  /\ redraw' = redraw - 1
  /\ drawLines' = statusLines
  /\ LET widths == [fieldWidths EXCEPT !.name = @ + width - fieldWidths.total]
     IN  /\ drawWidths' = [w |-> widths, of |-> widthsOf]
         /\ IF drawLinePanics(widths, columnNames)
              THEN Panic /\ UNCHANGED drawPc
              ELSE drawPc' = "body" /\ UNCHANGED <<exitCode, panicked>>
  /\ headerHeight' = 1
  /\ footerHeight' = 1
  /\ drawFoot' = drawFooter(arrays[statusLines], position, height)
  /\ numberOfRows' = height - 1 - 1
  /\ UNCHANGED <<flagVars, statusLines, fieldWidths, position, width, height,
                 sortField, sortAscending, arrays, termVars, mainPc,
                 pollVars, evVars, published, widthsOf, pureVars>>

\* the rows a frame shows: lines[d.position:] cut to d.numberOfRows
printLines(lines, pos, rows) ==
  SubSeq(lines, pos + 1, pos + min(Len(lines) - pos, rows))

\* printLines := lines[d.position:], cut to d.numberOfRows, drawn and
\* flushed; a slice bound out of range panics
DrawBody ==
  /\ Running /\ drawPc = "body"
  /\ LET n == Len(arrays[drawLines])
         rest == n - position
     IN  IF position > n \/ (rest > numberOfRows /\ numberOfRows < 0)
           THEN /\ Panic
                /\ UNCHANGED <<drawPc>>
           ELSE                /\ drawPc' = "wait"
                /\ UNCHANGED <<exitCode, panicked>>
  /\ UNCHANGED <<flagVars, displayVars, termVars, mainPc, pollVars,
                 evVars, drawLines, drawWidths, drawFoot, published, widthsOf,
                 pureVars>>

(***************************************************************************)
(* The program.                                                            *)
(***************************************************************************)
Next ==
  \/ MainSortEvent \/ MainInit \/ MainInitFail \/ MainResize
  \/ MainClose \/ MainExit
  \/ PollConnect \/ PollFetch \/ PollFetchFail \/ PollPublish
  \/ PollSortDone \/ PollSend
  \/ FatalClose \/ FatalPrint \/ FatalExit
  \/ EvQuitKey \/ QuitHandoff \/ EvSortKey \/ EvSortDone \/ EvScroll
  \/ EvResize \/ EvSendRedraw
  \/ DrawReceive \/ DrawBody

Spec == Init /\ [][Next]_vars

(***************************************************************************)
(* The running program: viewport, ownership of the display, snapshots.     *)
(***************************************************************************)
\* the rows a full frame shows: the height less the header and footer rows
visibleRows == height - 2

\* C1: in every reachable state the viewport position is within
\* 0 .. max(0, totalRows - visibleRows), totalRows being the number of rows
\* of the slice on display.
C1_PositionInRange ==
  /\ 0 <= position
  /\ position <= max(0, Len(arrays[statusLines]) - visibleRows)

\* a frame is being rendered: draw is between reading the display and its
\* termbox.Flush
Rendering == drawPc = "body"

\* C2: the poll loop and the event dispatcher only send messages: no step of
\* the poll loop writes the rows or the widths, no step of the event
\* dispatcher writes the sort order, the viewport or the rows, and the sort
\* order and the viewport are not written while a frame is being rendered.
C2_OnlyMessages ==
  [][/\ (pollPc' # pollPc) =>
          UNCHANGED <<statusLines, fieldWidths, arrays>>
     /\ (evPc' # evPc) =>
          UNCHANGED <<sortField, sortAscending, position, width, height, arrays>>
     /\ (<<sortField, sortAscending, position, width, height>>' #
           <<sortField, sortAscending, position, width, height>>) =>
          ~Rendering]_vars

\* rows are being moved in the slice: a sort of two rows or more is running
HalfSorted(a) == BeingSorted(a) /\ Len(arrays[a]) > 1

\* C3: the frame being rendered uses rows and widths of the same poll cycle,
\* and its rows are a permutation of the rows that cycle published, not
\* being sorted while they are drawn.
C3_ConsistentFrame ==
  Rendering =>
    /\ drawWidths.of = drawLines
    /\ ~HalfSorted(drawLines)
    /\ arrays[drawLines] \in Orders(published[drawLines])

\* C4: once a poll cycle has published its rows and widths, no step changes
\* the content or the order of the rows of that cycle or of an earlier one.
C4_PublishedImmutable ==
  [][\A g \in 1..MaxPolls : g <= widthsOf => arrays'[g] = arrays[g]]_vars

C6_RestoredBeforeExit ==
  [][FetchFailed =>
       /\ (stdout' # stdout \/ (exitCode' = 2 /\ ~panicked')) => ~termOpen
       /\ (pollPc # "fatalClose" /\ Rendering) => drawPc' = drawPc]_vars

\* the names of the rows of a slice are pairwise different
UniqueNames(sl) ==
  \A i, j \in 1..Len(sl) : sl[i].Name = sl[j].Name => i = j

JobNames == SeqsUpTo(NameChars, MaxNameLen) \ {<<>>}

\* queued, running and workers of the lines the filter is tried on
FilterCounts ==
  {<<Zero, Zero, Zero>>, <<Zero, <<"2">>, Zero>>, <<Zero, Zero, <<"1", "0">>>>}

FilterInit ==
  /\ showAll \in BOOLEAN
  /\ queueNameInclude \in SeqsUpTo(FlagChars, MaxFlagLen)
  /\ queueNameExclude \in SeqsUpTo(FlagChars, MaxFlagLen)
  /\ gearmanHost = <<"h">>
  /\ initialSortIndex = <<"1">>
  /\ Boot
  /\ filterLine = NoLine
  /\ filterKept = FALSE
  /\ hostRows = <<>>
  /\ mergedRows = <<>>
  /\ burst = <<>>
  /\ reply = <<>>
  /\ parsed = NoStatus

\* statusFilter(initialiseFilters()) applied to one line, as StatusFiltered
\* applies it to each line of an answer
FilterApply ==
  /\ filterLine = NoLine
  /\ \E name \in JobNames, c \in FilterCounts :
       LET line == StatusLine(name, c[1], c[2], c[3])
           terms == initialiseFilters(queueNameInclude, queueNameExclude)
       IN  /\ filterLine' = line
           /\ filterKept' = statusFilter(showAll, terms.include, terms.exclude, line)
  /\ queueNameInclude' = ToLower(queueNameInclude)
  /\ queueNameExclude' = ToLower(queueNameExclude)
  /\ UNCHANGED <<showAll, gearmanHost, initialSortIndex, displayVars, termVars,
                 mainVars, pollVars, evVars, drawVars, histVars, mergeVars,
                 scrollVars, parseVars>>

FilterNext == FilterApply

FilterSpec == FilterInit /\ [][FilterNext]_vars

\* the filter has been applied to filterLine
Filtered == filterLine # NoLine

\* the terms a flag stands for: its comma-separated parts, in lower case
\* (initialiseFilters has stored the flag back in lower case)
TermsOf(flag) == IF flag = <<>> THEN {} ELSE Range(Split(ToLower(flag), ","))

\* the lowercased name of the line contains one of the terms of the flag
Matches(flag) == \E t \in TermsOf(flag) : Contains(ToLower(filterLine.Name), t)

Idle ==
  filterLine.Queued = Zero /\ filterLine.Running = Zero /\ filterLine.Workers = Zero

\* C7: with showAll false a line whose queued, running and workers are all
\* "0" is dropped whatever the include and exclude terms are; with showAll
\* true an idle line is dropped only for its name (an exclude term matches,
\* or there are include terms and none matches), never for being idle.
C7_IdleDropped ==
  Filtered =>
    /\ (~showAll /\ Idle) => ~filterKept
    /\ (showAll /\ Idle /\ ~Matches(queueNameExclude)
          /\ (TermsOf(queueNameInclude) = {} \/ Matches(queueNameInclude)))
         => filterKept

\* an idle line whose name the include terms accept is dropped without --all
C7_Witness ==
  /\ Filtered /\ ~showAll /\ Idle
  /\ TermsOf(queueNameInclude) # {} /\ Matches(queueNameInclude)
  /\ ~Matches(queueNameExclude)
  /\ ~filterKept

\* C8: a line whose lowercased name contains an exclude term is dropped,
\* also when the name contains an include term.
C8_ExcludeWins == (Filtered /\ Matches(queueNameExclude)) => ~filterKept

\* a busy line that matches an include and an exclude term is dropped
C8_Witness ==
  /\ Filtered /\ ~Idle
  /\ Matches(queueNameExclude) /\ Matches(queueNameInclude)
  /\ <<>> \notin TermsOf(queueNameExclude)
  /\ ~filterKept

\* C9: a line that passes the idle check and matches no exclude term is kept
\* if and only if there are no include terms or its lowercased name contains
\* one of them; the terms are the lowercased parts of the flags, so a term
\* given in upper case matches.
C9_IncludeRule ==
  (Filtered /\ (showAll \/ ~Idle) /\ ~Matches(queueNameExclude)) =>
     (filterKept <=> (TermsOf(queueNameInclude) = {} \/ Matches(queueNameInclude)))

\* a line with an upper-case letter in its name kept because of the include
\* term "b", with exclude terms that do not match
C9_Witness ==
  /\ Filtered /\ filterKept /\ ~Idle
  /\ queueNameInclude = <<"b">>
  /\ queueNameExclude # <<>>
  /\ filterLine.Name = <<"a", "B">>

(***************************************************************************)
(* One poll cycle on its own: any answers of the hosts, filtered and       *)
(* merged.                                                                 *)
(***************************************************************************)
\* most hosts of --host in a cycle run on its own
MaxHosts == 2

\* job names and counts of the lines the hosts answer with
MergeNames == {<<"a">>, <<"B">>}

MergeCounts ==
  {<<Zero, Zero, Zero>>, <<<<"2">>, <<"1">>, <<"3">>>>, <<<<"1", "0">>, Zero, <<"1">>>>}

MergeLines ==
  {StatusLine(n, c[1], c[2], c[3]) : n \in MergeNames, c \in MergeCounts}

\* the answers of one host: no line, one line, or two lines of different names
Answers ==
  {<<>>} \cup {<<r>> : r \in MergeLines}
         \cup {x \in MergeLines \X MergeLines : x[1].Name # x[2].Name}

MergeInit ==
  /\ showAll \in BOOLEAN
  /\ queueNameInclude = <<>>
  /\ queueNameExclude = <<>>
  /\ gearmanHost = <<"h">>
  /\ initialSortIndex = <<"1">>
  /\ Boot
  /\ filterLine = NoLine
  /\ filterKept = FALSE
  /\ hostRows = <<>>
  /\ mergedRows = <<>>
  /\ burst = <<>>
  /\ reply = <<>>
  /\ parsed = NoStatus

\* the lines client.StatusFiltered(responseFilter) returns for an answer
Kept(answer) ==
  StatusFiltered(showAll, initialiseFilters(queueNameInclude, queueNameExclude), answer)

\* the loop over the clients left after the first client
mergeClients_FirstHost(answers) ==
  IF Len(answers) = 0 THEN <<>> ELSE Kept(answers[1])

\* the loop over the clients: statusLines = statusLines.Merge(newStatusLines),
\* starting from gearadmin.StatusLines{}
RECURSIVE mergeClients(_)
mergeClients(answers) ==
  IF Len(answers) = 0 THEN <<>>
  ELSE Merge(mergeClients(SubSeq(answers, 1, Len(answers) - 1)),
             Kept(answers[Len(answers)]))

\* the cycle with statusLines = newStatusLines in the place of the merge
MergeApply_LastHost ==
  /\ hostRows = <<>>
  /\ \E n \in 1..MaxHosts : \E answers \in [1..n -> Answers] :
       /\ hostRows' = answers
       /\ mergedRows' = Kept(answers[n])
  /\ UNCHANGED <<flagVars, displayVars, termVars, mainVars, pollVars, evVars,
                 drawVars, histVars, filterVars, scrollVars, parseVars>>

\* one cycle of display.updateLines up to d.statusLines = statusLines: every
\* client is asked and its filtered lines are merged
MergeApply ==
  /\ hostRows = <<>>
  /\ \E n \in 1..MaxHosts : \E answers \in [1..n -> Answers] :
       /\ hostRows' = answers
       /\ mergedRows' = mergeClients(answers)
  /\ UNCHANGED <<flagVars, displayVars, termVars, mainVars, pollVars, evVars,
                 drawVars, histVars, filterVars, scrollVars, parseVars>>

MergeNext == MergeApply

MergeSpec == MergeInit /\ [][MergeNext]_vars

\* the cycle has run
Merged == hostRows # <<>>

NamesOf(sl) == {sl[i].Name : i \in 1..Len(sl)}

\* the places of the lines of a name
Named(sl, name) == {i \in 1..Len(sl) : sl[i].Name = name}

IdleLine(line) ==
  line.Queued = Zero /\ line.Running = Zero /\ line.Workers = Zero

\* C11: when the lines of two hosts both hold a line of a name, the merged
\* lines hold exactly one line of that name, and its queued, running and
\* workers are the sums of the two hosts' values.
C11_SharedNameSummed ==
  (Merged /\ Len(hostRows) = 2) =>
    \A r \in Range(Kept(hostRows[1])), q \in Range(Kept(hostRows[2])) :
       r.Name = q.Name =>
         /\ Cardinality(Named(mergedRows, r.Name)) = 1
         /\ \A i \in Named(mergedRows, r.Name) :
              /\ Atoi(mergedRows[i].Queued) = Atoi(r.Queued) + Atoi(q.Queued)
              /\ Atoi(mergedRows[i].Running) = Atoi(r.Running) + Atoi(q.Running)
              /\ Atoi(mergedRows[i].Workers) = Atoi(r.Workers) + Atoi(q.Workers)

\* two hosts answer with a line of the same name and the merged line holds
\* the sums
C11_Witness ==
  /\ hostRows = <<<<StatusLine(<<"a">>, <<"2">>, <<"1">>, <<"3">>)>>,
                  <<StatusLine(<<"a">>, <<"1", "0">>, Zero, <<"1">>)>>>>
  /\ mergedRows = <<StatusLine(<<"a">>, <<"1", "2">>, <<"1">>, <<"4">>)>>

\* no job name is in the lines of two hosts
DisjointHosts ==
  \A i, j \in 1..Len(hostRows) :
     i # j => NamesOf(Kept(hostRows[i])) \cap NamesOf(Kept(hostRows[j])) = {}

\* C12: when the hosts' lines have no job name in common, the merged lines
\* are their union: every line of every host is there once and unchanged,
\* and there is no other line.
C12_DisjointUnion ==
  (Merged /\ DisjointHosts) =>
    /\ Range(mergedRows) = UNION {Range(Kept(hostRows[i])) : i \in 1..Len(hostRows)}
    /\ \A i, j \in 1..Len(mergedRows) : mergedRows[i] = mergedRows[j] => i = j

\* two hosts with one busy line each, of different names: both lines are in
\* the merged lines
C12_Witness ==
  /\ Merged /\ DisjointHosts /\ Len(hostRows) = 2
  /\ Len(Kept(hostRows[1])) = 1 /\ Len(Kept(hostRows[2])) = 1
  /\ ~IdleLine(hostRows[1][1]) /\ ~IdleLine(hostRows[2][1])
  /\ Len(mergedRows) = 2

\* C13: without --all, when one host reports a job idle and the other host
\* reports it with counts that are not all zero, the merged lines hold
\* exactly one line of that job, with the counts of the busy host, whichever
\* host is asked first.
C13_IdleAndBusy ==
  (Merged /\ ~showAll /\ Len(hostRows) = 2) =>
    \A i, j \in 1..2 :
       \A r \in Range(hostRows[i]), q \in Range(hostRows[j]) :
          (i # j /\ r.Name = q.Name /\ IdleLine(r) /\ ~IdleLine(q)) =>
             /\ Cardinality(Named(mergedRows, q.Name)) = 1
             /\ \A k \in Named(mergedRows, q.Name) : mergedRows[k] = q

\* the busy host is asked first and the idle host second
C13_Witness ==
  /\ ~showAll
  /\ hostRows = <<<<StatusLine(<<"a">>, <<"2">>, <<"1">>, <<"3">>)>>,
                  <<StatusLine(<<"a">>, Zero, Zero, Zero)>>>>
  /\ mergedRows = <<StatusLine(<<"a">>, <<"2">>, <<"1">>, <<"3">>)>>

(***************************************************************************)
(* The sort keys on their own: handleEvents reads sort keys while the poll *)
(* loop sleeps, on a table a poll cycle has published.                     *)
(***************************************************************************)
\* most rows of the table the keys are tried on
MaxSortRows == 2

\* a number of twenty digits
Huge == [i \in 1..20 |-> "9"]

\* the lines of the tables: names that differ in case only, numbers whose
\* text order is not their order, a field that is no number and a number out
\* of range
SortLines ==
  {StatusLine(<<"a">>, <<"5">>, Zero, Zero),
   StatusLine(<<"b">>, <<"1">>, Zero, Zero),
   StatusLine(<<"B">>, <<"1", "0">>, <<"2">>, <<"x">>),
   StatusLine(<<"A">>, <<"x">>, <<"1">>, <<"5">>),
   StatusLine(<<"a", "B">>, Huge, Zero, <<"2">>)}

\* tables of lines of different names
SortTables ==
  {t \in SeqsUpTo(SortLines, MaxSortRows) :
     \A i, j \in 1..Len(t) : t[i].Name = t[j].Name => i = j}

\* the program after main has started the goroutines and the first poll
\* cycle has published the table t and sorted it under --sort index, which
\* left it as sorted: the poll loop sleeps and the event loop waits for a key
TableSorted(t, sorted, index) ==
  /\ showAll = TRUE
  /\ queueNameInclude = <<>>
  /\ queueNameExclude = <<>>
  /\ gearmanHost = <<"h">>
  /\ initialSortIndex = <<index>>
  /\ sortField = index
  /\ sortAscending = (index = "1")
  /\ published = [g \in 0..MaxPolls |-> IF g = 1 THEN t ELSE <<>>]
  /\ arrays = [g \in 0..MaxPolls |-> IF g = 1 THEN sorted ELSE <<>>]
  /\ fieldWidths = fieldWidthsFactory(sorted)
  /\ statusLines = 1
  /\ widthsOf = 1
  /\ position = 0
  /\ termOpen = TRUE
  /\ stdout = "none"
  /\ mainPc = "wait"
  /\ exitCode = -1
  /\ pollPc = "send"
  /\ clients = 1
  /\ pollIdx = 2
  /\ pollLines = t
  /\ responseFilter = [include |-> <<>>, exclude |-> <<>>]
  /\ pollSort = NoSort
  /\ evPc = "poll"
  /\ evSort = NoSort
  /\ events = 0
  /\ drawPc = "wait"
  /\ panicked = FALSE
  /\ filterLine = NoLine
  /\ filterKept = FALSE
  /\ hostRows = <<>>
  /\ mergedRows = <<>>
  /\ burst = <<>>
  /\ reply = <<>>
  /\ parsed = NoStatus

\* the same with the table in any order the sort can leave
TableShown(t, index) ==
  \E sorted \in Sort(t, index, index = "1") : TableSorted(t, sorted, index)

\* a table is shown on a terminal of 30 columns and 4 rows; no frame has
\* been drawn yet
SorterInit ==
  /\ \E index \in SortKeys, t \in SortTables : TableShown(t, index)
  /\ width = 30
  /\ height = 4
  /\ headerHeight = 0
  /\ footerHeight = 0
  /\ numberOfRows = 0
  /\ redraw = 0
  /\ drawLines = 0
  /\ drawWidths = [w |-> [name |-> 0, queued |-> 0, running |-> 0, workers |-> 0, total |-> 0],
                   of |-> 0]
  /\ drawFoot = NoFooter

SorterNext == EvSortKey \/ EvSortDone \/ EvSendRedraw

SorterSpec == SorterInit /\ [][SorterNext]_vars

\* handleEvents reads a sort key
KeyPress == evPc = "poll" /\ evPc' = "sorting"

\* C14: a press of the active sort key flips ascending and keeps the key; a
\* press of key 1 while another key is active makes the key 1 and ascending
\* true; a press of key 2, 3 or 4 while a different key is active makes it
\* the key and ascending false, whatever the direction was.
C14_SortKeyTransition ==
  [][KeyPress =>
       /\ sortField' \in SortKeys
       /\ IF sortField' = sortField
            THEN sortAscending' = ~sortAscending
            ELSE sortAscending' = (sortField' = "1")]_vars

\* started with --sort 1 (ascending), key 1 pressed once: descending by name
C14_Witness ==
  /\ initialSortIndex = <<"1">> /\ events = 1 /\ evPc = "sendRedraw"
  /\ sortField = "1" /\ ~sortAscending

\* the sortLines call of a sort key has returned
SortDone == evPc = "sendRedraw"

\* the table on display and the field of a line a numeric key sorts by
Shown == arrays[statusLines]

KeyField(line) ==
  CASE sortField = "2" -> line.Queued
    [] sortField = "3" -> line.Running
    [] sortField = "4" -> line.Workers
    [] OTHER -> Zero

Parses(s) == IsNumber(s) /\ ~OutOfRange(s)

\* the lines of the table in the order of the values val gives their fields
InOrderOf(val(_)) ==
  \A i, j \in 1..Len(Shown) :
     i < j => IF sortAscending
                THEN val(KeyField(Shown[i])) <= val(KeyField(Shown[j]))
                ELSE val(KeyField(Shown[i])) >= val(KeyField(Shown[j]))

\* C16: after a sort by Queued, Running or Workers of lines whose fields are
\* integers the lines are a permutation of the lines published, in
\* non-decreasing order of the integer values when ascending and in
\* non-increasing order when descending.
C16_NumericOrder ==
  (/\ SortDone /\ sortField \in {"2", "3", "4"}
   /\ \A i \in 1..Len(Shown) : Parses(KeyField(Shown[i]))) =>
     /\ Shown \in Orders(published[statusLines])
     /\ InOrderOf(DecVal)

\* the lines (a,5,0,0), (b,1,0,0) sorted by Queued ascending are (b,1,0,0),
\* (a,5,0,0)
C16_Witness ==
  /\ SortDone /\ sortField = "2" /\ sortAscending
  /\ published[statusLines] = <<StatusLine(<<"a">>, <<"5">>, Zero, Zero),
                                StatusLine(<<"b">>, <<"1">>, Zero, Zero)>>
  /\ Shown = <<StatusLine(<<"b">>, <<"1">>, Zero, Zero),
               StatusLine(<<"a">>, <<"5">>, Zero, Zero)>>

\* the value of a field with every field strconv.Atoi fails on taken as 0
ZeroIfUnparsed(s) == IF Parses(s) THEN DecVal(s) ELSE 0

\* C17 as stated: after a sort by a numeric key the lines are in the order
\* of their integer values, with 0 for every field that does not parse as an
\* integer, and the process still runs.
C17_UnparsedAsZero ==
  (SortDone /\ sortField \in {"2", "3", "4"}) =>
     /\ InOrderOf(ZeroIfUnparsed)
     /\ Running /\ ~panicked

\* the value of a field: 0 for a field that is no decimal number, the
\* largest int for a decimal number out of the range of int
ZeroOrLargest(s) ==
  IF ~IsNumber(s) THEN 0 ELSE IF OutOfRange(s) THEN MaxInt ELSE DecVal(s)

\* C17: after a sort by a numeric key the lines are a permutation of the
\* lines published, in the order of their integer values, with 0 for a field
\* that is no decimal number and the largest int for a decimal number too
\* large for int; the process still runs.
C17_UnparsedOrder ==
  (SortDone /\ sortField \in {"2", "3", "4"}) =>
     /\ Shown \in Orders(published[statusLines])
     /\ InOrderOf(ZeroOrLargest)
     /\ Running /\ ~panicked

\* a table with a field that is no number sorted by that field, ascending:
\* the line comes before the line with 1
C17_Witness ==
  /\ SortDone /\ sortField = "2" /\ sortAscending
  /\ Len(Shown) = 2
  /\ Shown[1].Queued = <<"x">> /\ Shown[2].Queued = <<"1">>

\* C18: after a sort by Name the lines are a permutation of the lines
\* published, in the order of their lowercased names: no line comes before a
\* line whose lowercased name is smaller (ascending) or larger (descending),
\* and lines whose names differ in case only may come in either order.
C18_NameOrder ==
  (SortDone /\ sortField = "1") =>
     /\ Shown \in Orders(published[statusLines])
     /\ \A i, j \in 1..Len(Shown) :
          i < j => IF sortAscending
                     THEN ~StrLess(ToLower(Shown[j].Name), ToLower(Shown[i].Name))
                     ELSE ~StrLess(ToLower(Shown[i].Name), ToLower(Shown[j].Name))

\* ascending by name, a before B although "B" < "a" as text
C18_Witness ==
  /\ SortDone /\ sortField = "1" /\ sortAscending
  /\ Len(Shown) = 2
  /\ Shown[1].Name = <<"a">> /\ Shown[2].Name = <<"B">>

(***************************************************************************)
(* Frames and scrolling in the running program.                            *)
(***************************************************************************)
\* C15: every frame drawn shows the rows in the order of the sort key and
\* direction that are current: the rows being rendered are ordered by
\* sortField and sortAscending.
C15_FramesSorted ==
  Rendering => Ordered(arrays[drawLines], sortField, sortAscending)

\* handleEvents handles an arrow key: the position moves, or the event is
\* dropped at the top or the bottom
ScrollStep ==
  /\ evPc = "poll" /\ events' = events + 1
  /\ position' # position \/ evPc' = "poll"

\* C19: an arrow key leaves the position at max(0, position - 1) (up) or at
\* min(position + 1, max(0, totalRows - visibleRows)) (down), with the rows
\* on display and the height of the terminal as they are.
C19_ScrollBounds ==
  [][ScrollStep =>
       position' \in {max(0, position - 1),
                      min(position + 1,
                          max(0, Len(arrays[statusLines]) - visibleRows))}]_vars

\* display.draw takes a redraw message and starts a frame
FrameStarts == redraw' = redraw - 1

\* the frame that starts is the first one since the height of the terminal
\* changed: d.numberOfRows is still the one of a frame drawn at another height
AfterResize == headerHeight = 1 /\ numberOfRows # visibleRows

\* C22: when the first frame after a resize is drawn, the position is within
\* 0 .. max(0, totalRows - visibleRows) for the new height.
C22_ClampedAfterResize ==
  [][(FrameStarts /\ AfterResize) =>
       position <= max(0, Len(arrays[statusLines]) - visibleRows)]_vars

\* C28: in a poll cycle the hosts are asked one after the other in the order
\* of --host, each once: the index of the host asked next goes up by one
\* with every answer and returns to the first host only when the last one
\* has answered and the cycle has published; rows are published only when
\* every host has answered.
C28_EachHostOnce ==
  [][/\ (pollIdx' # pollIdx) =>
          \/ pollIdx' = pollIdx + 1 /\ pollIdx <= clients
          \/ pollIdx' = 1 /\ pollIdx = clients + 1 /\ widthsOf = statusLines
     /\ (statusLines' # statusLines) =>
          /\ pollIdx = clients + 1
          /\ statusLines' = statusLines + 1]_vars

\* two hosts, and the second cycle has published after both have answered
C28_Witness ==
  /\ clients = 2 /\ statusLines = 2 /\ widthsOf = 2
  /\ pollIdx = clients + 1

\* handleEvents has read 'q' or Ctrl-C: it is at quit <- true, or main has
\* taken the message
QuitRead == evPc = "sendQuit" \/ mainPc \in {"close", "exit"}

\* C29: a process in which 'q' or Ctrl-C was read ends with exit code 0 and
\* the terminal restored, and a process ends only after a quit key or after
\* fatal was called.
C29_QuitExitsZero ==
  ~Running =>
    /\ QuitRead => (exitCode = 0 /\ ~termOpen)
    /\ QuitRead \/ stdout # "none" \/ InFatal

\* display.sortEvent is running: the call in main before the goroutines are
\* started, or the one handleEvents makes for a key '1'..'4'
SortKeyStep ==
  \/ mainPc = "sort" /\ mainPc' = "init"
  \/ evPc = "poll" /\ evPc' = "sorting" /\ events' = events + 1

\* C31: the sort key and the sort direction are written by display.sortEvent
\* only: a step of the poll loop, of the draw loop, a scroll and a resize
\* leave both as they are.
C31_SortOnlyByKeys ==
  [][/\ (<<sortField, sortAscending>>' # <<sortField, sortAscending>>) =>
          SortKeyStep
     /\ (\/ pollPc' # pollPc
         \/ drawPc' # drawPc
         \/ redraw' = redraw - 1
         \/ position' # position
         \/ <<width, height>>' # <<width, height>>) =>
          UNCHANGED <<sortField, sortAscending>>]_vars

\* a key has changed the sort order of the command line, after a frame was
\* drawn from published rows, a resize or a scroll was handled
C31_Witness ==
  /\ statusLines > 0 /\ drawLines > 0 /\ events = MaxEvents
  /\ evPc = "sorting"
  /\ sortField # initialSortIndex[1]

\* C36: the step in which a status request fails and every step after it
\* leave the rows on display those of the last cycle in which every host
\* answered: nothing is published, the widths stay, the rows on display are
\* rows of that cycle, and the draw loop draws published rows only.
C36_FailedCycleUnpublished ==
  [][FetchFailed' =>
       /\ UNCHANGED <<statusLines, published, fieldWidths, widthsOf>>
       /\ widthsOf = statusLines
       /\ Range(arrays'[statusLines]) \subseteq Range(published[statusLines])
       /\ drawLines' <= statusLines]_vars

\* in the second cycle the first of two hosts has answered with rows and the
\* second has failed; a frame is being drawn from the rows of the first cycle
C36_Witness ==
  /\ FetchFailed /\ clients = 2 /\ pollIdx = 2 /\ pollLines # <<>>
  /\ statusLines = 1 /\ widthsOf = 1
  /\ Rendering /\ drawLines = 1

\* C34: the name column of every frame, the width of the names plus the
\* width of the terminal less the total width, is not negative.
C34_NameWidthNotNegative == drawWidths.w.name >= 0

\* handleEvents has handled an arrow key that moved nothing: it is back at
\* termbox.PollEvent with one more event read
ScrollDropped ==
  evPc = "poll" /\ evPc' = "poll" /\ events' = events + 1

\* the last row is within the rows the frame on the screen has room for
LastRowVisible ==
  Len(arrays[statusLines]) - position <= numberOfRows

\* C39: the position is written by an arrow key only, which moves it by one:
\* a step of the poll loop (a publication), a sort key and a step of the
\* draw loop leave it as it is; an arrow-up at position 0 and an arrow-down
\* with the last row visible do not move it, and an arrow key that does not
\* move it sends no redraw message.
C39_PositionOnlyByScroll ==
  [][/\ (position' # position) =>
          /\ ScrollStep /\ evPc' = "sendRedraw"
          /\ position' \in {position - 1, position + 1}
     /\ (\/ pollPc' # pollPc
         \/ <<sortField, sortAscending>>' # <<sortField, sortAscending>>
         \/ drawPc' # drawPc
         \/ redraw' = redraw - 1) =>
          position' = position
     /\ (position' = position - 1) => position # 0
     /\ (position' = position + 1) => ~LastRowVisible
     /\ ScrollDropped => (position' = position /\ redraw' = redraw)]_vars

\* an arrow-down has moved the position to the second row, and the second
\* poll cycle has published and its frame is drawn with the position kept
C39_Witness ==
  /\ position = 1 /\ events = MaxEvents /\ evPc = "poll"
  /\ statusLines = 2 /\ drawLines = 2 /\ drawPc = "wait" /\ Running

(***************************************************************************)
(* Arrow keys on their own: the event loop and the draw loop on a table    *)
(* whose first frame has been drawn, with no redraw message waiting.       *)
(***************************************************************************)
\* the widths display.draw uses on a terminal of the given width
drawnWidths(w) == [fieldWidths EXCEPT !.name = @ + w - fieldWidths.total]

\* display.draw has drawn the table at position 0 and waits for the next
\* message, of which there is none
FirstFrameDrawn ==
  /\ ~drawLinePanics(drawnWidths(width), columnNames)
  /\ height - 2 >= 0
  /\ headerHeight = 1
  /\ footerHeight = 1
  /\ numberOfRows = height - 2
  /\ redraw = 0
  /\ drawLines = 1
  /\ drawWidths = [w |-> drawnWidths(width), of |-> 1]
  /\ drawFoot = drawFooter(arrays[1], 0, height)

ScrollInit ==
  /\ \E index \in SortKeys, t \in HostReports : TableShown(t, index)
  /\ \E sz \in TermSizes :
       /\ width = sz[1]
       /\ height = sz[2]
  /\ FirstFrameDrawn

ScrollNext == EvScroll \/ EvSendRedraw \/ DrawReceive \/ DrawBody

ScrollSpec == ScrollInit /\ [][ScrollNext]_vars

\* C20: a burst of arrow keys is folded into one redraw: with arrow keys the
\* only source of redraw messages, the draw loop never has more than one of
\* them waiting (each message waiting is one more frame drawn).
C20_OneRedrawPerBurst == redraw <= 1

(***************************************************************************)
(* A burst of arrow keys on a table that does not change, on a terminal    *)
(* that is not resized.                                                    *)
(***************************************************************************)
\* arrow keys of one burst
MaxBurst == 7

\* numbers of rows of the table and heights of the terminal (10 rows on a
\* terminal of 6 rows: 4 rows of the table are visible)
BurstTotals == {0, 3, 10}
BurstHeights == {3, 6}

\* n rows in descending order of queued, the order --sort 2 leaves
BurstTable(n) ==
  [i \in 1..n |-> StatusLine(<<"a">> \o Itoa(i), Itoa(n - i), <<"0">>, <<"0">>)]

BurstInit ==
  /\ \E n \in BurstTotals :
       TableSorted(BurstTable(n), BurstTable(n), "2")
  /\ width = 30
  /\ height \in BurstHeights
  /\ FirstFrameDrawn

\* handleEvents reads the next arrow key of the burst
BurstScroll ==
  /\ Running /\ Started /\ evPc = "poll"
  /\ Len(burst) < MaxBurst
  /\ events' = events + 1
  /\ \E direction \in {-1, 1} :
       /\ scrollOutput(direction)
       /\ burst' = Append(burst, direction)
  /\ UNCHANGED <<flagVars, statusLines, fieldWidths, width, height,
                 headerHeight, footerHeight, numberOfRows, sortField,
                 sortAscending, redraw, arrays, termVars, mainVars, pollVars,
                 evSort, drawVars, published, widthsOf, panicked, filterVars,
                 mergeVars, parseVars>>

BurstNext == BurstScroll \/ EvSendRedraw \/ DrawReceive \/ DrawBody

BurstSpec == BurstInit /\ [][BurstNext]_vars

\* the table on display is scrolled while the poll loop goes on to its next
\* cycle, which publishes the rows the host reports then
RefreshNext ==
  \/ PollSend \/ PollFetch \/ PollPublish \/ PollSortDone
  \/ EvScroll \/ EvSendRedraw
  \/ DrawReceive \/ DrawBody

RefreshSpec == BurstInit /\ [][RefreshNext]_vars

\* C33: while a frame is being rendered the position is at most the number
\* of rows being drawn, so lines[d.position:] is within range, also when
\* the rows are those of a poll cycle that found fewer rows than the one
\* before.
C33_PositionWithinRows == Rendering => position <= Len(arrays[drawLines])

\* the frame being rendered is one of the rows on display, which are those
\* of the second poll cycle, and the position is beyond them
BeyondShrunkRows ==
  /\ Rendering /\ drawLines = statusLines /\ statusLines = 2
  /\ ~BeingSorted(statusLines)
  /\ position > Len(arrays[drawLines])

\* the clamped rule for one arrow key
ClampedStep(pos, direction, totalRows, visible) ==
  IF direction < 0 THEN max(0, pos - 1)
  ELSE min(pos + 1, max(0, totalRows - visible))

\* the clamped rule applied to the arrow keys one at a time
RECURSIVE OneAtATime(_, _, _, _)
OneAtATime(pos, directions, totalRows, visible) ==
  IF directions = <<>> THEN pos
  ELSE OneAtATime(ClampedStep(pos, Head(directions), totalRows, visible),
                  Tail(directions), totalRows, visible)

Downs(n) == [i \in 1..n |-> 1]

\* C21: the position after a burst of arrow keys is the position the clamped
\* rule gives when it is applied to the same keys one at a time; with 10
\* rows of which 4 are visible, three arrow-downs from position 0 give
\* position 3, a fourth gives 4, and the position never exceeds 10 - 4 = 6.
C21_BurstAsSteps ==
  LET totalRows == Len(arrays[statusLines]) IN
  /\ position = OneAtATime(0, burst, totalRows, visibleRows)
  /\ position <= max(0, totalRows - visibleRows)
  /\ (totalRows = 10 /\ visibleRows = 4) =>
       /\ burst = Downs(3) => position = 3
       /\ burst = Downs(4) => position = 4
       /\ position <= 6

\* seven arrow-downs on 10 rows of which 4 are visible: the position is 6
C21_Witness ==
  /\ Len(arrays[statusLines]) = 10 /\ visibleRows = 4
  /\ burst = Downs(7)
  /\ position = 6

(***************************************************************************)
(* Frames: what display.draw puts on the screen for a table, a position    *)
(* and a terminal size.                                                    *)
(***************************************************************************)
\* fmt.Sprintf("%<n>d", v) for v >= 0 and n >= 0: the digits, with spaces in
\* front up to the width n
Sprintf_d(n, v) ==
  LET digits == Itoa(v)
      pad == max(0, n - Len(digits))
  IN  [i \in 1..pad |-> " "] \o digits

\* drawField: the text print_tb is given; a value that strconv.Atoi accepts
\* is formatted to the width of the field and followed by a space
drawField(x, y, fieldWidth, value) ==
  [x |-> x, y |-> y,
   text |-> IF IsNumber(value) /\ ~OutOfRange(value)
              THEN Sprintf_d(fieldWidth, DecVal(value)) \o <<" ">>
              ELSE value]

\* drawLine: the four fields of a line, each one starting where drawField
\* returned for the one before (x + fieldWidth + 1); a name longer than its
\* column is cut to it
drawLine(y, widths, line) ==
  LET name == IF Len(line.Name) > widths.name
                THEN SubSeq(line.Name, 1, widths.name) ELSE line.Name
      x1 == widths.name + 1
      x2 == x1 + widths.queued + 1
      x3 == x2 + widths.running + 1
  IN  <<drawField(0, y, widths.name, name),
        drawField(x1, y, widths.queued, line.Queued),
        drawField(x2, y, widths.running, line.Running),
        drawField(x3, y, widths.workers, line.Workers)>>

\* drawFooter: fmt.Sprintf("%d/%d", ...)
Progress(shown, total) == Itoa(shown) \o <<"/">> \o Itoa(total)

\* the rows of a frame, all drawn from the top of the table
printedLines_FromTop(lines, pos, rows) ==
  SubSeq(lines, 1, min(Len(lines), rows))

\* the rows of a frame: printLines := lines[d.position:], cut to
\* d.numberOfRows when there are more
printedLines(lines, pos, rows) == printLines(lines, pos, rows)

\* the frame a draw with these locals and fields puts on the screen: the
\* header on row 0, the footer on the last row of the terminal
\* (y - footerHeight), its text ending at the last column, and the rows from
\* row headerHeight on
FrameOf(lines, widths, pos, w, h, header, footer, rows, foot) ==
  LET text == Progress(foot.shown, foot.total)
      pl == printedLines(lines, pos, rows)
  IN  [header |-> drawLine(0, widths, columnNames),
       footer |-> [x |-> w - Len(text), y |-> h - footer, text |-> text],
       body |-> [i \in 1..Len(pl) |-> drawLine(header + i - 1, widths, pl[i])]]

\* the height of the terminal display.draw read when it started the frame
\* it is rendering: d.numberOfRows is that height less the header and the
\* footer
frameHeight == numberOfRows + headerHeight + footerHeight

\* the frame being rendered (on a terminal that has kept its width since the
\* frame was started)
Frame ==
  FrameOf(arrays[drawLines], drawWidths.w, position, width, frameHeight,
          headerHeight, footerHeight, numberOfRows, drawFoot)

\* the slice expressions of the frame being rendered are in range
BodyDrawn ==
  /\ position <= Len(arrays[drawLines])
  /\ ~(Len(arrays[drawLines]) - position > numberOfRows /\ numberOfRows < 0)

\* terminal sizes <<width, height>> frames are drawn on
FrameSizes == {<<30, 4>>, <<30, 3>>, <<24, 3>>, <<50, 2>>}

\* main has started the goroutines with --all on a terminal of one of the
\* sizes, its two redraw messages are waiting, and the poll loop has the
\* answer of its host: the table t
FrameInit ==
  /\ showAll = TRUE
  /\ queueNameInclude = <<>>
  /\ queueNameExclude = <<>>
  /\ gearmanHost = <<"h">>
  /\ initialSortIndex = <<"1">>
  /\ statusLines = 0
  /\ fieldWidths = [name |-> 0, queued |-> 0, running |-> 0, workers |-> 0, total |-> 0]
  /\ position = 0
  /\ \E sz \in FrameSizes :
       /\ width = sz[1]
       /\ height = sz[2]
  /\ headerHeight = 0
  /\ footerHeight = 0
  /\ numberOfRows = 0
  /\ sortField = "1"
  /\ sortAscending = TRUE
  /\ redraw = 2
  /\ arrays = [g \in 0..MaxPolls |-> <<>>]
  /\ termOpen = TRUE
  /\ stdout = "none"
  /\ mainPc = "wait"
  /\ exitCode = -1
  /\ pollPc = "fetch"
  /\ clients = 1
  /\ pollIdx = 2
  /\ pollLines \in SortTables
  /\ responseFilter = [include |-> <<>>, exclude |-> <<>>]
  /\ pollSort = NoSort
  /\ evPc = "poll"
  /\ evSort = NoSort
  /\ events = 0
  /\ drawPc = "wait"
  /\ drawLines = 0
  /\ drawWidths = [w |-> fieldWidths, of |-> 0]
  /\ drawFoot = NoFooter
  /\ published = [g \in 0..MaxPolls |-> <<>>]
  /\ widthsOf = 0
  /\ panicked = FALSE
  /\ filterLine = NoLine
  /\ filterKept = FALSE
  /\ hostRows = <<>>
  /\ mergedRows = <<>>
  /\ burst = <<>>
  /\ reply = <<>>
  /\ parsed = NoStatus

FrameNext ==
  \/ PollPublish \/ PollSortDone \/ PollSend
  \/ EvScroll \/ EvSendRedraw
  \/ DrawReceive \/ DrawBody

FrameSpec == FrameInit /\ [][FrameNext]_vars

\* C23: a frame has the header on row 0, then min(visibleRows, totalRows -
\* position) rows of the table, which are the rows position, position + 1,
\* ... in that order on the rows 1, 2, ... of the screen, then the footer;
\* no row of the table is drawn on the row of the header or of the footer.
C23_FrameLayout ==
  (Rendering /\ BodyDrawn) =>
    LET lines == arrays[drawLines]
        body == Frame.body
    IN  /\ \A k \in 1..4 : Frame.header[k].y = 0
        /\ Len(body) = max(0, min(visibleRows, Len(lines) - position))
        /\ \A i \in 1..Len(body) :
             /\ body[i] = drawLine(i, drawWidths.w, lines[position + i])
             /\ \A k \in 1..4 : body[i][k].y \notin {0, Frame.footer.y}
        /\ Frame.footer.y = height - 1
        /\ \A i \in 1..Len(body) : Frame.footer.y > body[i][1].y

\* the second of two rows is the only row drawn, on row 1 of a terminal of
\* 3 rows
C23_Witness ==
  /\ Rendering /\ BodyDrawn
  /\ Len(arrays[drawLines]) = 2 /\ position = 1 /\ height = 3
  /\ Len(Frame.body) = 1
  /\ Frame.body[1] = drawLine(1, drawWidths.w, arrays[drawLines][2])

\* C24: the footer of a frame shows "<lastVisibleIndex>/<totalRows>", the
\* first number being min(position + visibleRows, totalRows), the 1-based
\* index of the last row the frame draws.
C24_FooterLastVisible ==
  (Rendering /\ BodyDrawn) =>
    LET totalRows == Len(arrays[drawLines]) IN
    Frame.footer.text =
      Progress(min(position + visibleRows, totalRows), totalRows)

\* the frame being rendered is one of a table without rows
NoRows == Rendering /\ Len(arrays[drawLines]) = 0

\* C40: a frame of a table without rows is drawn without a slice expression
\* out of range, at position 0, and shows the header, no rows and the footer
\* "0/0".
C40_ZeroRowsDrawn ==
  NoRows =>
    /\ BodyDrawn
    /\ position = 0
    /\ Frame.body = <<>>
    /\ Frame.footer.text = Progress(0, 0)

\* the rows on display are those of the second poll cycle, which found none,
\* on a terminal of 3 rows or more, and their frame is rendered at a
\* position the first cycle's rows left
NoRowsBelowPosition ==
  /\ NoRows /\ drawLines = statusLines /\ statusLines = 2
  /\ height >= 3 /\ numberOfRows = visibleRows
  /\ position > 0

\* the same for the frames of the table that is on display when they are
\* rendered
NoRowsOnDisplayDrawn ==
  (NoRows /\ drawLines = statusLines) =>
    /\ BodyDrawn
    /\ position = 0
    /\ Frame.body = <<>>
    /\ Frame.footer.text = Progress(0, 0)

\* the width of each column of the frame being rendered
ColumnWidth(k) ==
  CASE k = 1 -> drawWidths.w.name
    [] k = 2 -> drawWidths.w.queued
    [] k = 3 -> drawWidths.w.running
    [] k = 4 -> drawWidths.w.workers

\* the lines of the frame being rendered, with the line each was drawn from
FrameLines ==
  LET pl == printedLines(arrays[drawLines], position, numberOfRows) IN
  {<<Frame.header, columnNames>>} \cup
  {<<Frame.body[i], pl[i]>> : i \in 1..Len(Frame.body)}

\* C25: in a frame the queued, running and workers columns have the widths
\* of the table and the name column has the width of the terminal less the
\* other three and the three separators, so that the last column ends at the
\* last column of the terminal; a name longer than the name column is cut to
\* the width of the column, stays on its row and ends before the next column
\* starts.
C25_ColumnsSpanWidth ==
  (Rendering /\ BodyDrawn) =>
    /\ drawWidths.w.queued = fieldWidths.queued
    /\ drawWidths.w.running = fieldWidths.running
    /\ drawWidths.w.workers = fieldWidths.workers
    /\ drawWidths.w.name =
         width - (fieldWidths.queued + fieldWidths.running + fieldWidths.workers) - 3
    /\ \A fl \in FrameLines :
         LET cells == fl[1]
             line == fl[2]
         IN  /\ cells[1].x = 0
             /\ \A k \in 1..3 : cells[k + 1].x = cells[k].x + ColumnWidth(k) + 1
             /\ cells[4].x + ColumnWidth(4) = width
             /\ \A k \in 1..4 : cells[k].y = cells[1].y
             /\ cells[1].x + Len(cells[1].text) <= cells[2].x
             /\ (Len(line.Name) > ColumnWidth(1) /\ ~IsNumber(line.Name)) =>
                  cells[1].text = SubSeq(line.Name, 1, ColumnWidth(1))

\* the longest field of a column of the table (0 for no rows)
LongestField(sl, f) ==
  LET lens == {Len(sl[i][f]) : i \in 1..Len(sl)} \cup {0}
  IN  CHOOSE m \in lens : \A x \in lens : x <= m

\* C26: the width of each column of a published table is max(length of the
\* header label, longest field of the column) + padding, the padding being
\* the one the fields get (1 for name, queued and running, 0 for workers)
\* whether the label or a field is the longest.
C26_WidthsPadded ==
  widthsOf > 0 =>
    LET sl == arrays[widthsOf] IN
    /\ fieldWidths.name = max(Len(columnNames.Name), LongestField(sl, "Name")) + 1
    /\ fieldWidths.queued = max(Len(columnNames.Queued), LongestField(sl, "Queued")) + 1
    /\ fieldWidths.running = max(Len(columnNames.Running), LongestField(sl, "Running")) + 1
    /\ fieldWidths.workers = max(Len(columnNames.Workers), LongestField(sl, "Workers"))

\* a step of display.draw
DrawStep == drawPc' # drawPc \/ FrameStarts

\* C27: a redraw changes none of the rows, the sort order and the position,
\* and the frame it draws is determined by the rows, the widths, the
\* position and the size of the terminal alone, so that two redraws of the
\* same table, sort order, position and terminal size put the same content
\* on the screen.
C27_RedrawIdempotent ==
  [][DrawStep =>
       /\ UNCHANGED <<statusLines, arrays, fieldWidths, sortField,
                      sortAscending, position, width, height>>
       /\ (FrameStarts /\ Rendering') =>
            Frame' = FrameOf(arrays[statusLines], drawnWidths(width), position,
                             width, height, 1, 1, height - 2,
                             drawFooter(arrays[statusLines], position, height))]_vars

\* the last of the three frames of a run without key presses (two messages
\* of main, one of the poll loop) is being rendered, of a table of two rows
C27_Witness ==
  /\ Rendering /\ BodyDrawn
  /\ statusLines = 1 /\ drawLines = 1 /\ Len(arrays[1]) = 2
  /\ redraw = 0 /\ events = 0
  /\ pollPc = "fetch" /\ pollIdx = 1
  /\ Len(Frame.body) = 2

(***************************************************************************)
(* The status answer of gearmand as text (statusLineFromString and the     *)
(* read loop of getStatus, src/gearman_gtop.go).                           *)
(***************************************************************************)
\* lines of one answer
MaxReplyLines == 2

\* strings.Fields: the maximal runs of characters that are not white space
RECURSIVE Fields(_)
Fields(s) ==
  IF Len(s) = 0 THEN <<>>
  ELSE IF s[1] = " " THEN Fields(Tail(s))
  ELSE LET ends == {i \in 1..Len(s) : i = Len(s) \/ s[i + 1] = " "}
           k == CHOOSE i \in ends : \A j \in ends : i <= j
       IN  <<SubSeq(s, 1, k)>> \o Fields(SubSeq(s, k + 1, Len(s)))

\* statusLineFromString taking the first four of four fields or more
statusLineFromString_Lenient(line) ==
  LET parts == Fields(line) IN
  IF Len(parts) < 4
    THEN [ok |-> FALSE, line |-> NoLine]
    ELSE [ok |-> TRUE, line |-> StatusLine(parts[1], parts[2], parts[3], parts[4])]

\* statusLineFromString: an error unless the line has four fields
statusLineFromString(line) ==
  LET parts == Fields(line) IN
  IF Len(parts) # 4
    THEN [ok |-> FALSE, line |-> NoLine]
    ELSE [ok |-> TRUE, line |-> StatusLine(parts[1], parts[2], parts[3], parts[4])]

\* the line that ends an answer (".\n")
EndOfStatus == <<".">>

\* the loop of getStatus over the lines it reads: it ends at the line "."
\* or when the stream has no more lines, skips a line that
\* statusLineFromString rejects, and otherwise widens the columns and
\* appends the row
RECURSIVE readStatus(_, _)
readStatus(lines, status) ==
  IF Len(lines) = 0 \/ Head(lines) = EndOfStatus THEN status
  ELSE LET res == statusLineFromString(Head(lines))
           w == status.statusLineDims
       IN  IF ~res.ok THEN readStatus(Tail(lines), status)
           ELSE readStatus(Tail(lines),
                  [statusLines |-> Append(status.statusLines, res.line),
                   statusLineDims |->
                     [name |-> max(Len(res.line.Name), w.name),
                      queued |-> max(Len(res.line.Queued), w.queued),
                      running |-> max(Len(res.line.Running), w.running),
                      workers |-> max(Len(res.line.Workers), w.workers)]])

\* one cycle of getStatus: the status it sends on the channel
getStatus(lines) ==
  readStatus(lines,
             [statusLines |-> <<>>,
              statusLineDims |-> [name |-> Len(columnNames.Name),
                                  queued |-> Len(columnNames.Queued),
                                  running |-> Len(columnNames.Running),
                                  workers |-> Len(columnNames.Workers)]])

\* lines gearmand may send: four fields, four fields with more white space,
\* three fields of which one is longer than every label, five fields, the
\* empty line, a line of spaces, a longer row, and the end of the answer
ReplyLines ==
  {<<"a", " ", "1", " ", "0", " ", "2">>,
   <<" ", "B", " ", " ", "1", "0", " ", "1", " ", "1", " ">>,
   <<"a", "a", "a", "a", "a", "a", "a", "a", "a", "B", " ", "1", " ", "0">>,
   <<"a", " ", "1", " ", "0", " ", "2", " ", "3">>,
   <<>>,
   <<" ", " ">>,
   <<"a", "B", " ", "1", "2", "3", "4", "5", "6", "7", " ", "0", " ", "x">>,
   EndOfStatus}

ParseInit ==
  /\ showAll = TRUE
  /\ queueNameInclude = <<>>
  /\ queueNameExclude = <<>>
  /\ gearmanHost = <<"h">>
  /\ initialSortIndex = <<"1">>
  /\ Boot
  /\ filterLine = NoLine
  /\ filterKept = FALSE
  /\ hostRows = <<>>
  /\ mergedRows = <<>>
  /\ burst = <<>>
  /\ reply \in SeqsUpTo(ReplyLines, MaxReplyLines)
  /\ parsed = NoStatus

\* getStatus reads the answer and sends the status it made of it
ParseApply ==
  /\ parsed = NoStatus
  /\ parsed' = getStatus(reply)
  /\ UNCHANGED <<flagVars, displayVars, termVars, mainVars, pollVars, evVars,
                 drawVars, histVars, filterVars, mergeVars, scrollVars, reply>>

ParseNext == ParseApply

ParseSpec == ParseInit /\ [][ParseNext]_vars

\* the answer has been read
Parsed == parsed # NoStatus

\* the places of a line where a token starts
TokenStarts(line) ==
  {i \in 1..Len(line) : line[i] # " " /\ (i = 1 \/ line[i - 1] = " ")}

\* the lines of the answer before its end
ReplyBody ==
  LET ends == {i \in 1..Len(reply) : reply[i] = EndOfStatus} IN
  IF ends = {} THEN reply
  ELSE SubSeq(reply, 1, (CHOOSE i \in ends : \A j \in ends : i <= j) - 1)

FourTokens(line) == Cardinality(TokenStarts(line)) = 4

\* the lines of the answer that have exactly four tokens
WellFormed == SelectSeq(ReplyBody, FourTokens)

\* the longest of a label and the fields f of the rows
WidthOver(rows, f) ==
  LET lens == {Len(rows[i][f]) : i \in 1..Len(rows)} \cup {Len(columnNames[f])}
  IN  CHOOSE m \in lens : \A x \in lens : x <= m

\* C30: the rows of a status are the lines of the answer that have exactly
\* four tokens, in the order of the answer, each with its tokens as name,
\* queued, running and workers; a line with another number of tokens adds no
\* row, leaves the column widths as they are and does not end the reading:
\* the widths are those of the labels and the rows alone.
C30_MalformedSkipped ==
  Parsed =>
    LET rows == parsed.statusLines
        dims == parsed.statusLineDims
    IN  /\ Len(rows) = Len(WellFormed)
        /\ \A i \in 1..Len(rows) :
             LET tokens == Fields(WellFormed[i]) IN
             rows[i] = StatusLine(tokens[1], tokens[2], tokens[3], tokens[4])
        /\ dims.name = WidthOver(rows, "Name")
        /\ dims.queued = WidthOver(rows, "Queued")
        /\ dims.running = WidthOver(rows, "Running")
        /\ dims.workers = WidthOver(rows, "Workers")

\* a line of three tokens with a long name, then a line of four tokens: one
\* row, and the widths of the labels
C30_Witness ==
  /\ Parsed
  /\ reply = <<<<"a", "a", "a", "a", "a", "a", "a", "a", "a", "B", " ", "1", " ", "0">>,
               <<"a", " ", "1", " ", "0", " ", "2">>>>
  /\ parsed.statusLines = <<StatusLine(<<"a">>, <<"1">>, <<"0">>, <<"2">>)>>
  /\ parsed.statusLineDims = [name |-> 8, queued |-> 6, running |-> 7, workers |-> 7]

(***************************************************************************)
(* Start-up on its own: main with any --sort, the sort keys and the draw   *)
(* loop, before the poll loop has published anything.                      *)
(***************************************************************************)
\* values of --sort: the four columns, other characters, a longer string
\* and the empty string (flag.StringVar takes any string)
SortFlags ==
  {<<>>, <<"1">>, <<"2">>, <<"3">>, <<"4">>, <<"5">>, <<"0">>, <<"x">>,
   <<"2", "1">>}

\* the process before main runs, started with any --sort
StartInit ==
  /\ showAll = FALSE
  /\ queueNameInclude = <<>>
  /\ queueNameExclude = <<>>
  /\ gearmanHost = <<"h">>
  /\ initialSortIndex \in SortFlags
  /\ Boot
  /\ filterLine = NoLine
  /\ filterKept = FALSE
  /\ hostRows = <<>>
  /\ mergedRows = <<>>
  /\ burst = <<>>
  /\ reply = <<>>
  /\ parsed = NoStatus

StartNext ==
  \/ MainSortEvent \/ MainInit \/ MainInitFail \/ MainResize
  \/ EvSortKey \/ EvSortDone \/ EvSendRedraw
  \/ DrawReceive \/ DrawBody

StartSpec == StartInit /\ [][StartNext]_vars

\* main has made its call of sortEvent
SortSelected == mainPc # "sort"

\* C32: once main has selected the sort order, and whatever --sort is, the
\* sort key is one of '1', '2', '3', '4', the keys sortFields has a
\* comparison for.
C32_SortKeyDefined == SortSelected => sortField \in SortKeys

\* no key has been read since start-up
NoKeyYet == events = 0

\* C35: started with --sort=k, k one of 1..4, and before any key is read,
\* the sort key is k and the direction is ascending exactly when k is 1.
C35_StartUpSort ==
  (SortSelected /\ NoKeyYet /\ initialSortIndex \in {<<k>> : k \in SortKeys}) =>
    /\ sortField = initialSortIndex[1]
    /\ sortAscending = (initialSortIndex[1] = "1")

\* started with --sort=2, the first frame is drawn by queued, descending,
\* and no key has been read
C35_Witness ==
  /\ initialSortIndex = <<"2">> /\ NoKeyYet
  /\ mainPc = "wait" /\ drawPc = "body"
  /\ sortField = "2" /\ ~sortAscending

(***************************************************************************)
(* The goroutines under a fair scheduler: one host, --all, arrow keys,     *)
(* resizes and quit keys.                                                  *)
(***************************************************************************)
LiveInit == Init /\ gearmanHost = <<"h">>

LiveNext ==
  \/ MainSortEvent \/ MainInit \/ MainInitFail \/ MainResize
  \/ MainClose \/ MainExit
  \/ PollConnect \/ PollFetch \/ PollFetchFail \/ PollPublish
  \/ PollSortDone \/ PollSend
  \/ FatalClose \/ FatalPrint \/ FatalExit
  \/ EvQuitKey \/ QuitHandoff \/ EvScroll \/ EvResize \/ EvSendRedraw
  \/ DrawReceive \/ DrawBody

\* the steps each goroutine takes by itself; the keys, the resizes and the
\* answers of the host come when they come
MainSteps ==
  MainSortEvent \/ MainInit \/ MainInitFail \/ MainResize \/ MainClose
  \/ MainExit
PollSteps ==
  PollConnect \/ PollPublish \/ PollSortDone \/ PollSend
  \/ FatalClose \/ FatalPrint \/ FatalExit
EvSteps == QuitHandoff \/ EvSendRedraw
DrawSteps == DrawReceive \/ DrawBody

\* a goroutine that can take a step takes it in the end
Fairness ==
  /\ WF_vars(MainSteps) /\ WF_vars(PollSteps)
  /\ WF_vars(EvSteps) /\ WF_vars(DrawSteps)

LiveSpec == LiveInit /\ [][LiveNext]_vars /\ Fairness

\* the goroutines at a channel operation that cannot proceed
PollBlocked == pollPc = "send" /\ redraw = RedrawCap
EvBlocked ==
  \/ evPc = "sendRedraw" /\ redraw = RedrawCap
  \/ evPc = "sendQuit" /\ mainPc # "wait"
DrawBlocked == drawPc = "wait" /\ redraw = 0

\* C37: while the process runs the poll loop, the event dispatcher and the
\* draw loop are never all three blocked at a channel, and every send is
\* completed in the end (no goroutine stays at a send for ever): the two
\* sends of main before the draw loop exists, the send of the poll loop, and
\* the redraw and quit sends of the event dispatcher, also when the redraw
\* channel is full.
C37_SendsComplete ==
  /\ []((Running /\ Started) => ~(PollBlocked /\ EvBlocked /\ DrawBlocked))
  /\ []<>(mainPc # "sort" \/ ~Running)
  /\ []<>(mainPc # "resize" \/ ~Running)
  /\ []<>(pollPc # "send" \/ ~Running)
  /\ []<>(evPc # "sendRedraw" \/ ~Running)
  /\ []<>(evPc # "sendQuit" \/ ~Running)

\* the redraw channel is full of the messages of main, of the poll loop and
\* of an arrow key or a resize, the poll loop waits to send, and the draw
\* loop has not taken a message yet
C37_Witness ==
  /\ Running /\ redraw = RedrawCap
  /\ PollBlocked /\ events > 0 /\ headerHeight = 0

\* display.draw has flushed a frame of the rows of cycle g or of a later one
FrameDrawn(g) == drawPc = "wait" /\ drawLines >= g

\* C38: under the fair scheduler every poll cycle that has published its
\* rows is followed by a frame drawn from these rows or from newer ones,
\* unless a quit key is read or fatal is called.
C38_PublishedThenDrawn ==
  \A g \in 1..MaxPolls :
     (statusLines = g) ~> (FrameDrawn(g) \/ QuitRead \/ InFatal)

\* the same with every end of the process counted, a panic of a goroutine
\* included
PublishedThenDrawnOrEnded ==
  \A g \in 1..MaxPolls : (statusLines = g) ~> (FrameDrawn(g) \/ ~Running)

====
